---- MODULE Spec2Model ----
(***************************************************************************)
(* Model of dgkit's streaming ingestion engine: the element extractor      *)
(* (pipeline.find_elements), the per-file driver (pipeline.execute) with   *)
(* its progress tracker, the summary collector (summary.SummaryCollector), *)
(* the filter engine (filters.py), the sinks (writers.py: JsonWriter, the  *)
(* relational writers, and their scope in convert and load), the tracking  *)
(* wrapper (validation.TrackingElement), the format parser                 *)
(* (parsers._parse_formats) and the sampler (sampler.sample).              *)
(***************************************************************************)
EXTENDS Integers, Sequences, FiniteSets, TLC

(***************************************************************************)
(* Bounds of the model.                                                    *)
(***************************************************************************)
MaxTerms == 3      \* comparisons in one filter expression
MaxInt == 2        \* record ids of the filter specification range over 1..MaxInt
MaxEntries == 2    \* root-level children of one document
MaxNested == 1     \* same-tag elements nested in one root-level child
MaxLimit == 2      \* per-file element limit ranges over None, 0..MaxLimit
MaxFiles == 1      \* input files of one run
MaxRecs == 1       \* records one parse call returns
MaxCalls == 2      \* calls of each record_* method of a bare collector
MaxPaths == 1      \* distinct unaccessed paths of one element
MaxParts == 2      \* dot-separated parts of one field path
MaxChain == 3      \* filters of one chain
MaxWrites == 3     \* calls of write on one file writer, or by one execute
MaxInputs == 2     \* paths given to one convert or load
MaxRows == 3       \* calls of write on one relational writer
MaxElems == 2      \* elements of one list field of a record
MaxBatch == 2
MaxKids == 2        \* children of the element a TrackingElement wraps
MaxQty == 3         \* characters of a qty attribute
MaxOps == 4         \* calls made on a TrackingElement and its wrappers      \* batch_size and commit_interval range over 1..MaxBatch

None == [t |-> "none"]

(***************************************************************************)
(* Python values met by the filter engine: None, int, bool and str.  A str *)
(* is the sequence of its character codes, so that str(int) and the        *)
(* lexicographic order are computed and not assumed.                       *)
(***************************************************************************)
IntV(n) == [t |-> "int", v |-> n]
BoolV(b) == [t |-> "bool", v |-> b]
StrV(s) == [t |-> "str", v |-> s]

IsNone(x) == x.t = "none"
IsStr(x) == x.t = "str"
IsNum(x) == x.t \in {"int", "bool"}

\* bool is a subclass of int: True is 1 and False is 0 in comparisons
NumOf(x) == IF x.t = "bool" THEN (IF x.v THEN 1 ELSE 0) ELSE x.v

RECURSIVE Digits(_)
Digits(n) == IF n < 10 THEN <<48 + n>> ELSE Digits(n \div 10) \o <<48 + (n % 10)>>

\* str(x) for a non-str value x
PyStr(x) ==
  CASE x.t = "int" -> StrV(IF x.v < 0 THEN <<45>> \o Digits(0 - x.v) ELSE Digits(x.v))
    [] x.t = "bool" -> StrV(IF x.v THEN <<84, 114, 117, 101>> ELSE <<70, 97, 108, 115, 101>>)
    [] x.t = "object" -> StrV(<<60, 62>>)   \* "<built-in method ...>", "<class ...>"
    [] OTHER -> x

RECURSIVE StrLess(_, _)
StrLess(a, b) ==
  IF b = <<>> THEN FALSE
  ELSE IF a = <<>> THEN TRUE
  ELSE IF Head(a) # Head(b) THEN Head(a) < Head(b)
  ELSE StrLess(Tail(a), Tail(b))

PyEq(a, b) ==
  IF IsNum(a) /\ IsNum(b) THEN NumOf(a) = NumOf(b)
  ELSE IF IsStr(a) /\ IsStr(b) THEN a.v = b.v
  ELSE FALSE

\* ordering two values raises TypeError unless both are numbers or both str
Ordered(a, b) == (IsNum(a) /\ IsNum(b)) \/ (IsStr(a) /\ IsStr(b))

PyLess(a, b) == IF IsNum(a) THEN NumOf(a) < NumOf(b) ELSE StrLess(a.v, b.v)

Ops == {"==", "!=", ">", ">=", "<", "<="}

_compare(field_value, op, target_value) ==
  IF IsNone(field_value) /\ IsNone(target_value) THEN op \in {"==", ">=", "<="}
  ELSE IF IsNone(field_value) \/ IsNone(target_value) THEN op = "!="
  ELSE LET fv == IF IsStr(target_value) /\ ~IsStr(field_value)
                 THEN PyStr(field_value) ELSE field_value
           eq == PyEq(fv, target_value)
       IN CASE op = "==" -> eq
            [] op = "!=" -> ~eq
            [] op \in {">", ">=", "<", "<="} /\ ~Ordered(fv, target_value) -> FALSE
            [] op = ">" -> PyLess(target_value, fv)
            [] op = ">=" -> ~PyLess(fv, target_value)
            [] op = "<" -> PyLess(fv, target_value)
            [] op = "<=" -> ~PyLess(target_value, fv)
            [] OTHER -> FALSE

(***************************************************************************)
(* Records are NamedTuples: functions from field names to values.  A field *)
(* path is the sequence of its dot-separated parts.                        *)
(***************************************************************************)
IsRec(x) == x.t = "rec"
RecV(f) == [t |-> "rec", v |-> f]

\* the object getattr returns for an attribute that is no field: a bound
\* method or a class
Object(name) == [t |-> "object", name |-> name]

\* the attributes of a value that are not fields: every value has __class__,
\* a NamedTuple has the methods of tuple
Builtins(value) == IF IsRec(value) THEN {"count", "index", "__class__"} ELSE {"__class__"}

\* hasattr(value, part)
hasattr(value, part) ==
  (IsRec(value) /\ part \in DOMAIN value.v) \/ part \in Builtins(value)

\* getattr(value, part) when hasattr(value, part)
getattr(value, part) ==
  IF IsRec(value) /\ part \in DOMAIN value.v THEN value.v[part] ELSE Object(part)

RECURSIVE _get_field_value(_, _)
_get_field_value(value, parts) ==
  IF parts = <<>> THEN value
  ELSE IF hasattr(value, Head(parts))
       THEN _get_field_value(getattr(value, Head(parts)), Tail(parts))
       ELSE IF IsRec(value)
            THEN _get_field_value(None, Tail(parts))   \* value._asdict().get(part)
            ELSE None

(***************************************************************************)
(* The expression parser.  An expression is its token sequence: a          *)
(* comparison token carries field path, operator and literal; the others   *)
(* are the keywords and the parentheses.  infix_notation builds one level  *)
(* per operator of Precedence, the first binding tightest; a level with    *)
(* two operands or more becomes the tuple (name, operands).                *)
(***************************************************************************)
Cmp(f, o, v) == [k |-> "cmp", field |-> f, op |-> o, value |-> v]
Kw(w) == [k |-> w]

\* a faulty grammar: "or" listed first, so that it binds tighter than "and"
PrecedenceOrFirst == <<"OR", "AND">>

Precedence == <<"AND", "OR">>

Keyword(name) == IF name = "AND" THEN "and" ELSE "or"

Fail == [ok |-> FALSE, next |-> 0]

RECURSIVE ParseLevel(_, _, _)
RECURSIVE ParseRest(_, _, _, _)

ParseAtom(toks, i) ==
  IF i > Len(toks) THEN Fail
  ELSE IF toks[i].k = "cmp" THEN [ok |-> TRUE, ast |-> toks[i], next |-> i + 1]
  ELSE IF toks[i].k = "("
       THEN LET r == ParseLevel(toks, i + 1, Len(Precedence))
            IN IF r.ok /\ r.next <= Len(toks) /\ toks[r.next].k = ")"
               THEN [ok |-> TRUE, ast |-> r.ast, next |-> r.next + 1]
               ELSE Fail
       ELSE Fail

Operand(toks, i, lvl) ==
  IF lvl = 1 THEN ParseAtom(toks, i) ELSE ParseLevel(toks, i, lvl - 1)

ParseRest(toks, i, lvl, acc) ==
  IF i <= Len(toks) /\ toks[i].k = Keyword(Precedence[lvl])
  THEN LET r == Operand(toks, i + 1, lvl)
       IN IF r.ok THEN ParseRest(toks, r.next, lvl, Append(acc, r.ast))
          ELSE [terms |-> acc, next |-> i]
  ELSE [terms |-> acc, next |-> i]

ParseLevel(toks, i, lvl) ==
  LET first == Operand(toks, i, lvl)
  IN IF ~first.ok THEN Fail
     ELSE LET rest == ParseRest(toks, first.next, lvl, <<first.ast>>)
          IN IF Len(rest.terms) = 1 THEN first
             ELSE [ok |-> TRUE,
                   ast |-> [k |-> "tuple", op |-> Precedence[lvl], terms |-> rest.terms],
                   next |-> rest.next]

\* _PARSER.parse_string(expression, parse_all=True): the ParseResults holding
\* the one top-level item, or ParseException
parse_string(toks) ==
  LET r == ParseLevel(toks, 1, Len(Precedence))
  IN IF r.ok /\ r.next = Len(toks) + 1
     THEN [k |-> "results", items |-> <<r.ast>>]
     ELSE [k |-> "ParseException"]

RECURSIVE _evaluate(_, _)
_evaluate(parsed, record) ==
  IF parsed.k = "tuple" /\ parsed.op = "AND"
  THEN \A i \in 1..Len(parsed.terms) : _evaluate(parsed.terms[i], record)
  ELSE IF parsed.k = "tuple" /\ parsed.op = "OR"
  THEN \E i \in 1..Len(parsed.terms) : _evaluate(parsed.terms[i], record)
  ELSE IF parsed.k = "cmp"
  THEN _compare(_get_field_value(record, parsed.field), parsed.op, parsed.value)
  ELSE IF parsed.k = "results" /\ parsed.items # <<>>
  THEN _evaluate(parsed.items[1], record)
  ELSE TRUE

(***************************************************************************)
(* Filters.  A call returns Dropped (Python None) or the record kept, with *)
(* fresh telling whether it is a new object and not the one received, or   *)
(* it raises.                                                              *)
(***************************************************************************)
Dropped == [drop |-> TRUE]
Kept(r, isNew) == [drop |-> FALSE, record |-> r, fresh |-> isNew]
Raised(e) == [drop |-> FALSE, error |-> e]

IsRaised(result) == "error" \in DOMAIN result

ExpressionFilter(toks) == [kind |-> "expr", _parsed |-> parse_string(toks)]
UnsetFields(fields) == [kind |-> "unset", fields |-> fields]
FilterChain(filters) == [kind |-> "chain", filters |-> filters]

ExpressionFilterCall(f, record) ==
  IF _evaluate(f._parsed, record) THEN Dropped ELSE Kept(record, FALSE)

\* record._replace(**updates) raises ValueError for a name that is no field
UnsetFieldsCall(f, record) ==
  LET updates == {n \in f.fields : hasattr(record, n)}
  IN IF f.fields = {} \/ updates = {} THEN Kept(record, FALSE)
     ELSE IF ~(updates \subseteq DOMAIN record.v) THEN Raised("ValueError")
     ELSE Kept(RecV([n \in DOMAIN record.v |->
                      IF n \in updates THEN None ELSE record.v[n]]), TRUE)

RECURSIVE FilterCall(_, _)
RECURSIVE ChainFrom(_, _, _, _)

\* a faulty loop: the `return None` of line 192 is missing, a record a filter
\* drops goes on to the next filter
ChainFromKeepsGoing(filters, i, record, isNew) ==
  IF i > Len(filters) THEN Kept(record, isNew)
  ELSE LET result == FilterCall(filters[i], record)
       IN IF result.drop THEN ChainFrom(filters, i + 1, record, isNew)
          ELSE IF IsRaised(result) THEN result
          ELSE ChainFrom(filters, i + 1, result.record, isNew \/ result.fresh)

\* the loop of FilterChain.__call__ from the i-th filter on
ChainFrom(filters, i, record, isNew) ==
  IF i > Len(filters) THEN Kept(record, isNew)
  ELSE LET result == FilterCall(filters[i], record)
       IN IF result.drop THEN Dropped
          ELSE IF IsRaised(result) THEN result
          ELSE ChainFrom(filters, i + 1, result.record, isNew \/ result.fresh)

FilterCall(f, record) ==
  CASE f.kind = "expr" -> ExpressionFilterCall(f, record)
    [] f.kind = "unset" -> UnsetFieldsCall(f, record)
    [] f.kind = "chain" -> ChainFrom(f.filters, 1, record, FALSE)

(***************************************************************************)
(* State of one ExpressionFilter object and of one call of it.             *)
(***************************************************************************)
VARIABLES fSrc, fRecord, fFilter, fResult, fPc

(***************************************************************************)
(* State of one find_elements generator: the document behind the stream,   *)
(* the arguments, the position in the stream of end events, the locals and *)
(* the effects on the tree (elements cleared, elements deleted from their  *)
(* parent).  feOut is the history of the elements yielded.                 *)
(***************************************************************************)
VARIABLES feDoc, feTag, feLimit, fePos, feCount, fePc, feCur, feCleared, feDeleted, feOut

(***************************************************************************)
(* State of one run of the driver (convert / load): its arguments, the     *)
(* SummaryCollector and the ProgressTracker it creates, the index of the   *)
(* file being processed, the position inside execute with its locals, and  *)
(* the exception that ended the run.  The x-histories record, for the file *)
(* being processed, what the parser produced, what writer.write received   *)
(* and which progress callbacks were invoked.  xParsed is what the         *)
(* elements of the input hold, in source order, as far as a parse has      *)
(* looked at them: the input files of one run are copies of one document.  *)
(***************************************************************************)
VARIABLES cfg, summary, tracker, xFile, xPc, xErr, xElem, xIdx,
          xParsed, xProduced, xWritten, xProgress

(***************************************************************************)
(* State of one evaluation of a comparison: the record, the field path,    *)
(* the operator and the literal, the value the path resolves to and the    *)
(* result of _compare.                                                     *)
(***************************************************************************)
VARIABLES cRecord, cField, cOp, cTarget, cValue, cResult, cPc

(***************************************************************************)
(* State of one call of a FilterChain: the filters, the record received,   *)
(* the loop's position and current record, the log of the calls made to    *)
(* the filters, the value returned, and the value the chain regrouped as   *)
(* [a, chain([b, c])] returns for the same record.                         *)
(***************************************************************************)
VARIABLES chFilters, chRecord, chIdx, chCur, chFresh, chLog, chResult, chNested, chPc

(***************************************************************************)
(* State of one JsonWriter and of the with statement around it: the file   *)
(* object, the _first flag, the chunks written to the file so far, the     *)
(* records whose write returned, the number of calls of write, the         *)
(* exception that ends the scope and the position of the scope.            *)
(***************************************************************************)
VARIABLES jwFp, jwFirst, jwOut, jwDone, jwCalls, jwExc, jwPc

(***************************************************************************)
(* State of one run of convert or load as far as the sink is concerned:    *)
(* the command and the format (or database type), for each path given      *)
(* whether it is a file, the position in valid_paths, the writer of the    *)
(* current with statement (0 when there is none), the number of writes     *)
(* execute has made for the current file, the log of the calls made on the *)
(* writers (writers are numbered in the order they are created), the       *)
(* exception that ended the run and the position in the code.              *)
(***************************************************************************)
VARIABLES skCmd, skFormat, skPaths, skFile, skWriter, skCount, skLog, skErr, skPc

(***************************************************************************)
(* State of one relational writer (SqliteWriter or PostgresWriter) and of  *)
(* the with statement around it: the constructor's arguments together with *)
(* the SQL resources the package ships, the connection, the writer's       *)
(* tables, buffers and caches together with the statements executed on the *)
(* connection and the history of the rows appended to the buffers, the     *)
(* number of calls of write, what the last call of write was given, the    *)
(* exception the body of the with statement raised and the position of the *)
(* scope: "closed" and "failed" after an __exit__ that returned (the body  *)
(* ended normally, raised), "broken" after an __exit__ that raised itself. *)
(***************************************************************************)
VARIABLES sqCfg, sqConn, sqSelf, sqCalls, sqLast, sqExc, sqPc

(***************************************************************************)
(* State of one TrackingElement and of the wrappers it has created: the    *)
(* raw element (its attributes, its text and its children, which are       *)
(* leaves), the heap of the TrackingElement objects in the order of their  *)
(* creation (the first is the wrapper of the element itself), the position *)
(* of the generator that __iter__ returned (0 when there is none or it is  *)
(* finished), the number of calls made so far, what the last call was and  *)
(* what it returned, and the position.                                     *)
(***************************************************************************)
VARIABLES trElem, trHeap, trIter, trOps, trLast, trPc

(***************************************************************************)
(* State of one call of _parse_formats: the <formats> element it is given  *)
(* (None when the release has none), what the call returned or raised, and *)
(* the position.                                                           *)
(***************************************************************************)
VARIABLES fmParent, fmResult, fmPc

(***************************************************************************)
(* State of one call of sample: the entity the name of the input file      *)
(* gives, the document in the file, the count asked for, the position in   *)
(* the stream of end events, the local written, the chunks written to the  *)
(* output file (an element is written as it is in the tree at that moment: *)
(* with the elements below it that have been cleared or deleted), the      *)
(* elements cleared and deleted so far, the value returned and the         *)
(* position.                                                               *)
(***************************************************************************)
VARIABLES smEntity, smDoc, smCount, smPos, smWritten, smOut, smCleared, smDeleted, smReturn, smPc

filterVars == <<fSrc, fRecord, fFilter, fResult, fPc>>
cmpVars == <<cRecord, cField, cOp, cTarget, cValue, cResult, cPc>>
chainVars == <<chFilters, chRecord, chIdx, chCur, chFresh, chLog, chResult, chNested, chPc>>
feVars == <<feDoc, feTag, feLimit, fePos, feCount, fePc, feCur, feCleared, feDeleted, feOut>>
sumVars == <<summary>>
exVars == <<cfg, tracker, xFile, xPc, xErr, xElem, xIdx, xParsed, xProduced, xWritten, xProgress>>
smVars == <<smEntity, smDoc, smCount, smPos, smWritten, smOut, smCleared, smDeleted, smReturn, smPc>>
fmVars == <<fmParent, fmResult, fmPc>>
trVars == <<trElem, trHeap, trIter, trOps, trLast, trPc>>
sqlVars == <<sqCfg, sqConn, sqSelf, sqCalls, sqLast, sqExc, sqPc>>
sinkVars == <<skCmd, skFormat, skPaths, skFile, skWriter, skCount, skLog, skErr, skPc>>
jsonVars == <<jwFp, jwFirst, jwOut, jwDone, jwCalls, jwExc, jwPc>>

vars == <<filterVars, feVars, sumVars, exVars, cmpVars, chainVars, jsonVars, sinkVars, sqlVars, trVars, fmVars, smVars>>

\* the variables a specification of one component leaves alone
exceptFilter == <<feVars, sumVars, exVars, cmpVars, chainVars, jsonVars, sinkVars, sqlVars, trVars, fmVars, smVars>>
exceptFind == <<filterVars, sumVars, exVars, cmpVars, chainVars, jsonVars, sinkVars, sqlVars, trVars, fmVars, smVars>>
exceptDriver == <<filterVars, cmpVars, chainVars, jsonVars, sinkVars, sqlVars, trVars, fmVars, smVars>>
exceptSummary == <<filterVars, feVars, exVars, cmpVars, chainVars, jsonVars, sinkVars, sqlVars, trVars, fmVars, smVars>>
exceptCompare == <<filterVars, feVars, sumVars, exVars, chainVars, jsonVars, sinkVars, sqlVars, trVars, fmVars, smVars>>
exceptChain == <<filterVars, feVars, sumVars, exVars, cmpVars, jsonVars, sinkVars, sqlVars, trVars, fmVars, smVars>>
exceptJson == <<filterVars, feVars, sumVars, exVars, cmpVars, chainVars, sinkVars, sqlVars, trVars, fmVars, smVars>>
exceptSink == <<filterVars, feVars, sumVars, exVars, cmpVars, chainVars, jsonVars, sqlVars, trVars, fmVars, smVars>>
exceptSql == <<filterVars, feVars, sumVars, exVars, cmpVars, chainVars, jsonVars, sinkVars, trVars, fmVars, smVars>>
exceptTrack == <<filterVars, feVars, sumVars, exVars, cmpVars, chainVars, jsonVars, sinkVars, sqlVars, fmVars, smVars>>
exceptFormat == <<filterVars, feVars, sumVars, exVars, cmpVars, chainVars, jsonVars, sinkVars, sqlVars, trVars, smVars>>
exceptSample == <<filterVars, feVars, sumVars, exVars, cmpVars, chainVars, jsonVars, sinkVars, sqlVars, trVars, fmVars>>

CmpIdle ==
  /\ cRecord = None
  /\ cField = <<>>
  /\ cOp = ""
  /\ cTarget = None
  /\ cValue = None
  /\ cResult = FALSE
  /\ cPc = "idle"

ChainIdle ==
  /\ chFilters = <<>>
  /\ chRecord = None
  /\ chIdx = 0
  /\ chCur = None
  /\ chFresh = FALSE
  /\ chLog = <<>>
  /\ chResult = None
  /\ chNested = None
  /\ chPc = "idle"

JsonIdle ==
  /\ jwFp = None
  /\ jwFirst = TRUE
  /\ jwOut = <<>>
  /\ jwDone = <<>>
  /\ jwCalls = 0
  /\ jwExc = ""
  /\ jwPc = "idle"

SinkIdle ==
  /\ skCmd = ""
  /\ skFormat = ""
  /\ skPaths = <<>>
  /\ skFile = 0
  /\ skWriter = 0
  /\ skCount = 0
  /\ skLog = <<>>
  /\ skErr = ""
  /\ skPc = "idle"

SqlIdle ==
  /\ sqCfg = None
  /\ sqConn = "none"
  /\ sqSelf = None
  /\ sqCalls = 0
  /\ sqLast = None
  /\ sqExc = ""
  /\ sqPc = "idle"

TrackIdle ==
  /\ trElem = None
  /\ trHeap = <<>>
  /\ trIter = 0
  /\ trOps = 0
  /\ trLast = None
  /\ trPc = "idle"

FormatIdle ==
  /\ fmParent = None
  /\ fmResult = None
  /\ fmPc = "idle"

SampleIdle ==
  /\ smEntity = ""
  /\ smDoc = None
  /\ smCount = 0
  /\ smPos = 0
  /\ smWritten = 0
  /\ smOut = <<>>
  /\ smCleared = {}
  /\ smDeleted = {}
  /\ smReturn = None
  /\ smPc = "idle"

\* the components of the later sections that are not `own` are idle
OthersIdle(own) ==
  /\ own # "compare" => CmpIdle
  /\ own # "chain" => ChainIdle
  /\ own # "json" => JsonIdle
  /\ own # "sink" => SinkIdle
  /\ own # "sql" => SqlIdle
  /\ own # "track" => TrackIdle
  /\ own # "format" => FormatIdle
  /\ own # "sample" => SampleIdle

(***************************************************************************)
(* Source expressions: up to MaxTerms comparisons joined by and/or, with   *)
(* at most one parenthesised range.  paren = <<i, j>> puts "(" before the  *)
(* i-th comparison and ")" after the j-th; <<0, 0>> is no parenthesis.     *)
(***************************************************************************)
AtomSet == {Cmp(<<"id">>, "==", IntV(1)), Cmp(<<"name">>, "!=", None)}

SrcSet ==
  UNION {[atoms : [1..n -> AtomSet], ops : [1..(n - 1) -> {"and", "or"}],
          paren : {<<0, 0>>} \cup {<<i, j>> : i \in 1..n, j \in 1..n}] : n \in 1..MaxTerms}

WellFormed(src) == src.paren = <<0, 0>> \/ src.paren[1] <= src.paren[2]

\* the text of the expression, as tokens
Tokens(src) ==
  LET n == Len(src.atoms)
      tok(i) == (IF src.paren[1] = i THEN <<Kw("(")>> ELSE <<>>)
                \o <<src.atoms[i]>>
                \o (IF src.paren[2] = i THEN <<Kw(")")>> ELSE <<>>)
                \o (IF i < n THEN <<Kw(src.ops[i])>> ELSE <<>>)
      RECURSIVE from(_)
      from(i) == IF i > n THEN <<>> ELSE tok(i) \o from(i + 1)
  IN from(1)

FilterRecords ==
  {RecV([id |-> IntV(i), name |-> nm]) : i \in 1..MaxInt, nm \in {None, StrV(<<65>>)}}

FilterIdle ==
  /\ fSrc = None
  /\ fRecord = None
  /\ fFilter = None
  /\ fResult = None
  /\ fPc = "idle"

FilterStart ==
  /\ fSrc \in {src \in SrcSet : WellFormed(src)}
  /\ fRecord \in FilterRecords
  /\ fFilter = None
  /\ fResult = None
  /\ fPc = "new"

\* ExpressionFilter.__init__
FilterConstruct ==
  /\ fPc = "new"
  /\ fFilter' = ExpressionFilter(Tokens(fSrc))
  /\ fPc' = IF fFilter'._parsed.k = "ParseException" THEN "error" ELSE "built"
  /\ UNCHANGED <<fSrc, fRecord, fResult>>

\* ExpressionFilter.__call__
FilterApply ==
  /\ fPc = "built"
  /\ fResult' = ExpressionFilterCall(fFilter, fRecord)
  /\ fPc' = "called"
  /\ UNCHANGED <<fSrc, fRecord, fFilter>>

(***************************************************************************)
(* Documents.  A document is its root tag and the root's children in       *)
(* source order; a child (entry) has a tag and holds `nested` elements of  *)
(* its own tag inside one container child (<sublabels> for a label).       *)
(* Element <<i, 0>> is the i-th entry, <<i, j>> its j-th nested element    *)
(* and <<0, 0>> the root.                                                  *)
(***************************************************************************)
Root == <<0, 0>>

DocSet(roots, tags, maxEntries, maxNested) ==
  UNION {[root : roots,
          entries : [1..n -> [tag : tags, nested : 0..maxNested]]] : n \in 0..maxEntries}

Container(tag) == IF tag = "label" THEN "sublabels" ELSE "members"

TagOf(doc, el) == IF el = Root THEN doc.root ELSE doc.entries[el[1]].tag

\* elem.getparent().tag, "" when getparent() is None
ParentTag(doc, el) ==
  IF el = Root THEN ""
  ELSE IF el[2] = 0 THEN doc.root
  ELSE Container(doc.entries[el[1]].tag)

\* the end events etree.iterparse(stream, events=("end",), tag=tag) delivers:
\* an element ends after the elements nested in it
RECURSIVE EventsFrom(_, _, _)
EventsFrom(doc, tag, i) ==
  IF i > Len(doc.entries) THEN (IF doc.root = tag THEN <<Root>> ELSE <<>>)
  ELSE (IF doc.entries[i].tag = tag
        THEN [j \in 1..doc.entries[i].nested |-> <<i, j>>] \o <<(<<i, 0>>)>>
        ELSE <<>>) \o EventsFrom(doc, tag, i + 1)

Events(doc, tag) == EventsFrom(doc, tag, 1)

\* the elements elem.getprevious() reaches: the earlier children of the parent
PreviousSiblings(doc, el) ==
  IF el = Root THEN {}
  ELSE IF el[2] = 0 THEN {<<i, 0>> : i \in 1..(el[1] - 1)}
  ELSE {<<el[1], j>> : j \in 1..(el[2] - 1)}

\* the elements of the subtree below el
Below(doc, el) ==
  IF el = Root
  THEN UNION {{<<i, j>> : j \in 0..doc.entries[i].nested} : i \in 1..Len(doc.entries)}
  ELSE IF el[2] = 0 THEN {<<el[1], j>> : j \in 1..doc.entries[el[1]].nested}
  ELSE {}

_ENTITIES_WITH_NESTING == {"label"}

Limits == {None} \cup {IntV(n) : n \in 0..MaxLimit}

FeIdle ==
  /\ feDoc = None
  /\ feTag = ""
  /\ feLimit = None
  /\ fePos = 0
  /\ feCount = 0
  /\ fePc = "idle"
  /\ feCur = Root
  /\ feCleared = {}
  /\ feDeleted = {}
  /\ feOut = <<>>

\* a generator find_elements(stream, tag, limit) before its first next()
FeNew(doc, tag, limit) ==
  /\ feDoc = doc
  /\ feTag = tag
  /\ feLimit = limit
  /\ fePos = 1
  /\ feCount = 0
  /\ fePc = "run"
  /\ feCur = Root
  /\ feCleared = {}
  /\ feDeleted = {}
  /\ feOut = <<>>

\* the call find_elements(stream, tag, limit)
FeCall(doc, tag, limit) ==
  /\ feDoc' = doc
  /\ feTag' = tag
  /\ feLimit' = limit
  /\ fePos' = 1
  /\ feCount' = 0
  /\ fePc' = "run"
  /\ feCur' = Root
  /\ feCleared' = {}
  /\ feDeleted' = {}
  /\ feOut' = <<>>

check_parent == feTag \in _ENTITIES_WITH_NESTING

\* a faulty nesting filter: no element is rejected
RejectedNever(doc, el) == FALSE

\* the nesting filter of lines 59-62 rejects the element
Rejected(doc, el) == ParentTag(doc, el) = "" \/ ParentTag(doc, el) # "labels"

\* the loop takes the next event and skips it (continue)
FeSkip ==
  /\ fePc = "run"
  /\ fePos <= Len(Events(feDoc, feTag))
  /\ check_parent /\ Rejected(feDoc, Events(feDoc, feTag)[fePos])
  /\ fePos' = fePos + 1
  /\ UNCHANGED <<feDoc, feTag, feLimit, feCount, fePc, feCur, feCleared, feDeleted, feOut>>

\* the loop takes the next event and yields its element
FeYield ==
  /\ fePc = "run"
  /\ fePos <= Len(Events(feDoc, feTag))
  /\ LET el == Events(feDoc, feTag)[fePos]
     IN /\ ~(check_parent /\ Rejected(feDoc, el))
        /\ feCur' = el
        /\ feOut' = Append(feOut, [elem |-> el,
                                   parent |-> ParentTag(feDoc, el),
                                   cleared |-> feCleared \cap Below(feDoc, el)])
  /\ fePos' = fePos + 1
  /\ fePc' = "yielded"
  /\ UNCHANGED <<feDoc, feTag, feLimit, feCount, feCleared, feDeleted>>

\* the consumer asks for the next element: the generator resumes after the
\* yield, frees the element and counts it
FeResume ==
  /\ fePc = "yielded"
  /\ feCleared' = feCleared \cup {feCur}
  /\ feDeleted' = feDeleted \cup PreviousSiblings(feDoc, feCur)
  /\ feCount' = feCount + 1
  /\ fePc' = IF feLimit # None /\ feCount' >= feLimit.v THEN "done" ELSE "run"
  /\ UNCHANGED <<feDoc, feTag, feLimit, fePos, feCur, feOut>>

\* the stream has no further event: the loop ends
FeExhaust ==
  /\ fePc = "run"
  /\ fePos > Len(Events(feDoc, feTag))
  /\ fePc' = "done"
  /\ UNCHANGED <<feDoc, feTag, feLimit, fePos, feCount, feCur, feCleared, feDeleted, feOut>>

(***************************************************************************)
(* SummaryCollector: the counters and the warnings list; each record_*     *)
(* method maps the collector's state to its next state.                    *)
(***************************************************************************)
NewCollector ==
  [_records_read |-> 0, _records_dropped |-> 0, _records_modified |-> 0,
   _records_written |-> 0, _records_unhandled |-> 0, _warnings |-> <<>>]

record_read(s) == [s EXCEPT !._records_read = @ + 1]

\* a faulty record_dropped: the drop is not counted
record_dropped_lost(s) == s

record_dropped(s) == [s EXCEPT !._records_dropped = @ + 1]

record_modified(s) == [s EXCEPT !._records_modified = @ + 1]

record_written(s) == [s EXCEPT !._records_written = @ + 1]

\* a faulty record_unhandled: the warning is kept, the counter is not advanced
record_unhandled_uncounted(s, message) == [s EXCEPT !._warnings = Append(@, message)]

record_unhandled(s, message) ==
  [s EXCEPT !._records_unhandled = @ + 1, !._warnings = Append(@, message)]

\* Summary returned by SummaryCollector.result() (the elapsed time left out)
result(s) ==
  [records_dropped |-> s._records_dropped, records_modified |-> s._records_modified,
   records_read |-> s._records_read, records_written |-> s._records_written,
   records_unhandled |-> s._records_unhandled, warnings |-> s._warnings]

(***************************************************************************)
(* ProgressTracker and the readers.  A path is its index in valid_paths.   *)
(***************************************************************************)
StSize(path) == path

RECURSIVE SumSizes(_)
SumSizes(n) == IF n = 0 THEN 0 ELSE StSize(n) + SumSizes(n - 1)

ProgressTracker(limit, show_progress, npaths) ==
  [_use_elements |-> limit # None,
   _show_progress |-> show_progress,
   _bytes_completed |-> 0,
   total |-> IF ~show_progress THEN 0
             ELSE IF limit # None THEN limit.v * npaths ELSE SumSizes(npaths),
   completed |-> 0]

get_reader == "GzipReader"

\* the attributes a reader object has
ReaderAttrs(reader) ==
  IF reader = "TrackingGzipReader" THEN {"open", "total_size", "bytes_read"} ELSE {"open"}

on_bytes(t, bytes_read) ==
  IF t._show_progress THEN [t EXCEPT !.completed = t._bytes_completed + bytes_read] ELSE t

on_element(t) == IF t._show_progress THEN [t EXCEPT !.completed = @ + 1] ELSE t

advance_file(t, path) == [t EXCEPT !._bytes_completed = @ + StSize(path)]

\* is the callback handed to execute (not None)?
bytes_callback(t) == t._show_progress /\ ~t._use_elements

element_callback(t) == t._show_progress /\ t._use_elements

(***************************************************************************)
(* The driver.  What an element holds is drawn when it is parsed: its id   *)
(* (None: missing or empty, the parser raises ValueError), the records the *)
(* parser yields for it, and the paths of the element that the parser      *)
(* leaves unread (what a TrackingElement reports after the parse).         *)
(***************************************************************************)
PathNames == 1..MaxPaths

ParsedRecord(id) == RecV([id |-> id, name |-> StrV(<<65>>)])

\* the ids of the elements of an input file: 1 is the id the --drop-if
\* expression of FilterLists matches, 2 stands for every other id
DriverIds == {IntV(1), IntV(2)}

\* get_unaccessed() is called on the TrackingElement, which exists in strict
\* mode only; it reports the first k paths of PathNames
Unaccessed(strict) == IF strict THEN {1..k : k \in 0..MaxPaths} ELSE {{}}

Elements(strict) ==
  {[id |-> None, records |-> <<>>, unaccessed |-> {}]}
  \cup {[id |-> i, records |-> [j \in 1..n |-> ParsedRecord(i)], unaccessed |-> u] :
          i \in DriverIds, n \in 1..MaxRecs, u \in Unaccessed(strict)}

\* the input files: <labels> documents whose labels hold MaxNested sublabels
\* each
DriverDocs ==
  {doc \in DocSet({"labels"}, {"label"}, MaxEntries, MaxNested) :
     \A i \in 1..Len(doc.entries) : doc.entries[i].nested = MaxNested}

DropIdOne == <<Cmp(<<"id">>, "==", IntV(1))>>

\* the filters list built from --drop-if and --unset
FilterLists ==
  {<<>>, <<ExpressionFilter(DropIdOne)>>,
   <<ExpressionFilter(DropIdOne), UnsetFields({"name"})>>}

Configs ==
  [limit : Limits, strict : BOOLEAN, fail_on_unhandled : BOOLEAN,
   show_progress : BOOLEAN, show_summary : BOOLEAN, filters : FilterLists,
   npaths : 0..MaxFiles]

\* elem.findtext("id") or elem.get("id") or "?"
ElementId(content) == IF content.id = None THEN StrV(<<63>>) ELSE PyStr(content.id)

RECURSIVE Sorted(_)
Sorted(S) ==
  IF S = {} THEN <<>>
  ELSE LET m == CHOOSE x \in S : \A y \in S : x <= y IN <<m>> \o Sorted(S \ {m})

\* the warning messages; `at` tells which element of which file it is about
ParseErrorMessage(tag, content, at) ==
  [kind |-> "Parse error", tag |-> tag, id |-> ElementId(content), paths |-> <<>>, at |-> at]

UnhandledMessage(tag, content, at) ==
  [kind |-> "Unhandled", tag |-> tag, id |-> ElementId(content),
   paths |-> Sorted(content.unaccessed), at |-> at]

\* "if summary: summary.record_...()": updated is the collector after the call
IfSummary(s, updated) == IF s = None THEN s ELSE updated

DriverIdle ==
  /\ cfg = None
  /\ tracker = None
  /\ xFile = 0
  /\ xPc = "idle"
  /\ xErr = ""
  /\ xElem = None
  /\ xIdx = 0
  /\ xParsed = <<>>
  /\ xProduced = <<>>
  /\ xWritten = <<>>
  /\ xProgress = <<>>

\* convert / load up to the loop over valid_paths
DriverStart ==
  /\ cfg \in Configs
  /\ summary = IF cfg.show_summary THEN NewCollector ELSE None
  /\ tracker = ProgressTracker(cfg.limit, cfg.show_progress, cfg.npaths)
  /\ xFile = 1
  /\ xPc = "files"
  /\ xErr = ""
  /\ xElem = None
  /\ xIdx = 0
  /\ xParsed = <<>>
  /\ xProduced = <<>>
  /\ xWritten = <<>>
  /\ xProgress = <<>>

At == <<xFile, Len(feOut)>>

\* the driver calls execute for the next path: the reader is opened and
\* find_elements is called
ExOpen ==
  /\ xPc = "files"
  /\ xFile <= cfg.npaths
  /\ \E doc \in (IF xFile = 1 THEN DriverDocs ELSE {feDoc}) : FeCall(doc, "label", cfg.limit)
  /\ xPc' = "next"
  /\ xProduced' = <<>>
  /\ xWritten' = <<>>
  /\ xProgress' = <<>>
  /\ UNCHANGED <<cfg, summary, tracker, xFile, xErr, xElem, xIdx, xParsed>>

ExSkip == xPc = "next" /\ FeSkip /\ UNCHANGED <<sumVars, exVars>>

ExYield ==
  /\ xPc = "next"
  /\ FeYield
  /\ xPc' = "parse"
  /\ UNCHANGED <<cfg, summary, tracker, xFile, xErr, xElem, xIdx,
                 xParsed, xProduced, xWritten, xProgress>>

ExExhaust == xPc = "next" /\ FeExhaust /\ UNCHANGED <<sumVars, exVars>>

\* what the i-th element of the file holds
Content(i) == IF i <= Len(xParsed) THEN {xParsed[i]} ELSE Elements(cfg.strict)

\* lines 102-113: wrap, parse, and handle the parser's ValueError
ExParse ==
  /\ xPc = "parse"
  /\ \E content \in Content(Len(feOut)) :
       /\ xElem' = content
       /\ xParsed' = IF Len(feOut) <= Len(xParsed) THEN xParsed ELSE Append(xParsed, content)
       /\ IF content.id = None
          THEN /\ IF cfg.fail_on_unhandled
                  THEN xPc' = "raised" /\ xErr' = "ValueError" /\ UNCHANGED summary
                  ELSE /\ xPc' = "progress_error"
                       /\ LET message == ParseErrorMessage(feTag, content, At)
                              unhandled(s) == record_unhandled(s, message)
                          IN summary' = IfSummary(summary, unhandled(summary))
                       /\ UNCHANGED xErr
               /\ UNCHANGED <<xIdx, xProduced>>
          ELSE /\ xPc' = "records"
               /\ xIdx' = 1
               /\ xProduced' = xProduced \o
                    [j \in 1..Len(content.records) |->
                       [elem |-> Len(feOut), idx |-> j, record |-> content.records[j]]]
               /\ UNCHANGED <<summary, xErr>>
  /\ UNCHANGED <<feVars, cfg, tracker, xFile, xWritten, xProgress>>

\* filter = FilterChain(filters) if filters else None; filter(record)
ApplyFilter(filters, record) ==
  IF filters = <<>> THEN Kept(record, FALSE)
  ELSE FilterCall(FilterChain(filters), record)

\* a faulty loop body: without the continue of line 128, a dropped record
\* goes on to writer.write
ExRecordNoContinue ==
  /\ xPc = "records"
  /\ xIdx <= Len(xElem.records)
  /\ LET record == xElem.records[xIdx]
         filtered == ApplyFilter(cfg.filters, record)
         dropped(s) == record_written(record_dropped(record_read(s)))
         written(s) == record_written(record_read(s))
         modified(s) == record_written(record_modified(record_read(s)))
         out == IF filtered.drop THEN None ELSE filtered.record
     IN /\ xWritten' = Append(xWritten, [elem |-> Len(feOut), idx |-> xIdx, record |-> out])
        /\ summary' = IF filtered.drop THEN IfSummary(summary, dropped(summary))
                      ELSE IF filtered.fresh THEN IfSummary(summary, modified(summary))
                      ELSE IfSummary(summary, written(summary))
  /\ xIdx' = xIdx + 1
  /\ UNCHANGED <<feVars, cfg, tracker, xFile, xPc, xErr, xElem, xParsed, xProduced, xProgress>>

\* a faulty loop body: the test `filtered is not record` of line 129 is
\* missing, every record the filter lets through is counted as modified
ExRecordCountsEveryKept ==
  /\ xPc = "records"
  /\ xIdx <= Len(xElem.records)
  /\ LET record == xElem.records[xIdx]
         filtered == ApplyFilter(cfg.filters, record)
         dropped(s) == record_dropped(record_read(s))
         written(s) == record_written(record_read(s))
         modified(s) == record_written(record_modified(record_read(s)))
     IN IF filtered.drop
        THEN /\ summary' = IfSummary(summary, dropped(summary))
             /\ UNCHANGED xWritten
        ELSE /\ xWritten' = Append(xWritten, [elem |-> Len(feOut), idx |-> xIdx,
                                              record |-> filtered.record])
             /\ summary' = IF cfg.filters # <<>> THEN IfSummary(summary, modified(summary))
                           ELSE IfSummary(summary, written(summary))
  /\ xIdx' = xIdx + 1
  /\ UNCHANGED <<feVars, cfg, tracker, xFile, xPc, xErr, xElem, xParsed, xProduced, xProgress>>

\* a faulty loop body: the strict check of lines 137-147 is made before the
\* record is handled, so that the offending element's records are not written
ExRecordStrictFirst ==
  /\ xPc = "records"
  /\ xIdx <= Len(xElem.records)
  /\ LET record == xElem.records[xIdx]
         filtered == ApplyFilter(cfg.filters, record)
         dropped(s) == record_dropped(record_read(s))
         written(s) == record_written(record_read(s))
         modified(s) == record_written(record_modified(record_read(s)))
     IN IF cfg.strict /\ cfg.fail_on_unhandled /\ xElem.unaccessed # {}
        THEN /\ xPc' = "raised"
             /\ xErr' = "UnhandledElementError"
             /\ UNCHANGED <<summary, xWritten, xIdx>>
        ELSE /\ IF filtered.drop
                THEN /\ summary' = IfSummary(summary, dropped(summary))
                     /\ UNCHANGED xWritten
                ELSE /\ xWritten' = Append(xWritten, [elem |-> Len(feOut), idx |-> xIdx,
                                                      record |-> filtered.record])
                     /\ summary' = IF filtered.fresh THEN IfSummary(summary, modified(summary))
                                   ELSE IfSummary(summary, written(summary))
             /\ xIdx' = xIdx + 1
             /\ UNCHANGED <<xPc, xErr>>
  /\ UNCHANGED <<feVars, cfg, tracker, xFile, xElem, xParsed, xProduced, xProgress>>

\* lines 120-135: one iteration of the loop over the element's records
ExRecord ==
  /\ xPc = "records"
  /\ xIdx <= Len(xElem.records)
  /\ LET record == xElem.records[xIdx]
         filtered == ApplyFilter(cfg.filters, record)
         read(s) == record_read(s)
         dropped(s) == record_dropped(record_read(s))
         written(s) == record_written(record_read(s))
         modified(s) == record_written(record_modified(record_read(s)))
     IN IF filtered.drop
        THEN /\ summary' = IfSummary(summary, dropped(summary))
             /\ UNCHANGED xWritten
        ELSE /\ xWritten' = Append(xWritten, [elem |-> Len(feOut), idx |-> xIdx,
                                              record |-> filtered.record])
             /\ summary' = IF filtered.fresh THEN IfSummary(summary, modified(summary))
                           ELSE IfSummary(summary, written(summary))
  /\ xIdx' = xIdx + 1
  /\ UNCHANGED <<feVars, cfg, tracker, xFile, xPc, xErr, xElem, xParsed, xProduced, xProgress>>

\* a faulty strict check: fail_on_unhandled is not looked at, the unhandled
\* data is only ever recorded
ExStrictNeverRaises ==
  /\ xPc = "records"
  /\ xIdx > Len(xElem.records)
  /\ xPc' = "progress"
  /\ IF cfg.strict /\ xElem.unaccessed # {}
     THEN LET message == UnhandledMessage(feTag, xElem, At)
              unhandled(s) == record_unhandled(s, message)
          IN summary' = IfSummary(summary, unhandled(summary))
     ELSE UNCHANGED summary
  /\ UNCHANGED <<feVars, cfg, tracker, xFile, xErr, xElem, xIdx, xParsed, xProduced, xWritten, xProgress>>

\* lines 137-147: the strict-mode check after the element's records
ExStrict ==
  /\ xPc = "records"
  /\ xIdx > Len(xElem.records)
  /\ IF cfg.strict /\ xElem.unaccessed # {}
     THEN IF cfg.fail_on_unhandled
          THEN xPc' = "raised" /\ xErr' = "UnhandledElementError" /\ UNCHANGED summary
          ELSE /\ xPc' = "progress"
               /\ LET message == UnhandledMessage(feTag, xElem, At)
                      unhandled(s) == record_unhandled(s, message)
                  IN summary' = IfSummary(summary, unhandled(summary))
               /\ UNCHANGED xErr
     ELSE xPc' = "progress" /\ UNCHANGED <<summary, xErr>>
  /\ UNCHANGED <<feVars, cfg, tracker, xFile, xElem, xIdx, xParsed, xProduced, xWritten, xProgress>>

(* The two callback statements, at lines 114-117 and at lines 149-152:      *)
(* on_progress_bytes(reader.bytes_read) evaluates its argument first, which *)
(* raises AttributeError on a reader without bytes_read.                    *)
ProgressCalls ==
  LET entry(kind) == [kind |-> kind, elem |-> Len(feOut), writes |-> Len(xWritten)]
      withBytes == bytes_callback(tracker)
      withElement == element_callback(tracker)
      afterBytes == IF withBytes THEN on_bytes(tracker, fePos - 1) ELSE tracker
      logBytes == IF withBytes THEN Append(xProgress, entry("bytes")) ELSE xProgress
  IN IF withBytes /\ "bytes_read" \notin ReaderAttrs(get_reader)
     THEN xPc' = "raised" /\ xErr' = "AttributeError" /\ UNCHANGED <<tracker, xProgress>>
     ELSE /\ xPc' = "resume"
          /\ tracker' = IF withElement THEN on_element(afterBytes) ELSE afterBytes
          /\ xProgress' = IF withElement THEN Append(logBytes, entry("element")) ELSE logBytes
          /\ UNCHANGED xErr

\* a faulty error path: continue without the callbacks of lines 114-117
ExProgressErrorSilent ==
  /\ xPc = "progress_error"
  /\ xPc' = "resume"
  /\ UNCHANGED <<feVars, summary, cfg, tracker, xFile, xErr, xElem, xIdx,
                 xParsed, xProduced, xWritten, xProgress>>

\* lines 114-118: the callbacks after a parse error, then continue
ExProgressError ==
  /\ xPc = "progress_error"
  /\ ProgressCalls
  /\ UNCHANGED <<feVars, summary, cfg, xFile, xElem, xIdx, xParsed, xProduced, xWritten>>

\* lines 149-152: the callbacks at the end of the loop body
ExProgress ==
  /\ xPc = "progress"
  /\ ProgressCalls
  /\ UNCHANGED <<feVars, summary, cfg, xFile, xElem, xIdx, xParsed, xProduced, xWritten>>

\* the for loop asks the generator for the next element
ExResume ==
  /\ xPc = "resume"
  /\ FeResume
  /\ xPc' = "next"
  /\ UNCHANGED <<cfg, summary, tracker, xFile, xErr, xElem, xIdx,
                 xParsed, xProduced, xWritten, xProgress>>

\* the generator is finished: execute returns and the driver advances
ExReturn ==
  /\ xPc = "next"
  /\ fePc = "done"
  /\ tracker' = advance_file(tracker, xFile)
  /\ xFile' = xFile + 1
  /\ xPc' = "files"
  /\ UNCHANGED <<feVars, cfg, summary, xErr, xElem, xIdx, xParsed, xProduced, xWritten, xProgress>>

\* after the last path: return summary.result() if summary else None
DriverReturn ==
  /\ xPc = "files"
  /\ xFile > cfg.npaths
  /\ xPc' = "finished"
  /\ UNCHANGED <<feVars, cfg, summary, tracker, xFile, xErr, xElem, xIdx,
                 xParsed, xProduced, xWritten, xProgress>>

(***************************************************************************)
(* SpecFilter: one expression filter built and called once.                *)
(***************************************************************************)
FilterNext ==
  \/ FilterConstruct /\ UNCHANGED exceptFilter
  \/ FilterApply /\ UNCHANGED exceptFilter

FilterInit == FilterStart /\ FeIdle /\ summary = None /\ DriverIdle /\ OthersIdle("")

SpecFilter == FilterInit /\ [][FilterNext]_vars

(***************************************************************************)
(* SpecFind: list(find_elements(stream, tag, limit)) over every document.  *)
(***************************************************************************)
FindDocs == DocSet({"labels", "artists", "label"}, {"label", "artist"}, MaxEntries, MaxNested)

FindInit ==
  /\ FilterIdle
  /\ OthersIdle("")
  /\ summary = None
  /\ DriverIdle
  /\ \E doc \in FindDocs, tag \in {"label", "artist"}, limit \in Limits :
       FeNew(doc, tag, limit)

FindNext ==
  \/ FeSkip /\ UNCHANGED exceptFind
  \/ FeYield /\ UNCHANGED exceptFind
  \/ FeResume /\ UNCHANGED exceptFind
  \/ FeExhaust /\ UNCHANGED exceptFind

SpecFind == FindInit /\ [][FindNext]_vars

(***************************************************************************)
(* Spec: one run of the driver over its input files.                       *)
(***************************************************************************)
Init == FilterIdle /\ FeIdle /\ DriverStart /\ OthersIdle("")

Next ==
  \/ ExOpen /\ UNCHANGED exceptDriver
  \/ ExSkip /\ UNCHANGED exceptDriver
  \/ ExYield /\ UNCHANGED exceptDriver
  \/ ExExhaust /\ UNCHANGED exceptDriver
  \/ ExParse /\ UNCHANGED exceptDriver
  \/ ExRecord /\ UNCHANGED exceptDriver
  \/ ExStrict /\ UNCHANGED exceptDriver
  \/ ExProgressError /\ UNCHANGED exceptDriver
  \/ ExProgress /\ UNCHANGED exceptDriver
  \/ ExResume /\ UNCHANGED exceptDriver
  \/ ExReturn /\ UNCHANGED exceptDriver
  \/ DriverReturn /\ UNCHANGED exceptDriver

Spec == Init /\ [][Next]_vars

(***************************************************************************)
(* SpecSummary: a SummaryCollector under any sequence of record_* calls.   *)
(***************************************************************************)
Messages ==
  {[kind |-> k, tag |-> "label", id |-> StrV(<<63>>), paths |-> <<>>, at |-> <<0, 0>>] :
     k \in {"Parse error", "Unhandled"}}

SummaryInit == FilterIdle /\ FeIdle /\ DriverIdle /\ summary = NewCollector /\ OthersIdle("")

CallRead ==
  /\ summary._records_read < MaxCalls
  /\ summary' = record_read(summary)

CallDropped ==
  /\ summary._records_dropped < MaxCalls
  /\ summary' = record_dropped(summary)

CallModified ==
  /\ summary._records_modified < MaxCalls
  /\ summary' = record_modified(summary)

CallWritten ==
  /\ summary._records_written < MaxCalls
  /\ summary' = record_written(summary)

CallUnhandled ==
  /\ summary._records_unhandled < MaxCalls
  /\ \E message \in Messages : summary' = record_unhandled(summary, message)

SummaryNext ==
  \/ CallRead /\ UNCHANGED exceptSummary
  \/ CallDropped /\ UNCHANGED exceptSummary
  \/ CallModified /\ UNCHANGED exceptSummary
  \/ CallWritten /\ UNCHANGED exceptSummary
  \/ CallUnhandled /\ UNCHANGED exceptSummary

SpecSummary == SummaryInit /\ [][SummaryNext]_vars

(***************************************************************************)
(* SpecCompare: one comparison `field op literal` evaluated on a record,   *)
(* as _evaluate does it: _get_field_value, then _compare.                  *)
(***************************************************************************)
LabelRef(id, name) == RecV([id |-> id, name |-> name])

CompareRecords ==
  {RecV([id |-> IntV(i), name |-> nm, parent_label |-> pl]) :
     i \in 1..MaxInt, nm \in {None, StrV(<<65>>)},
     pl \in {None, LabelRef(IntV(1), StrV(<<65>>))}}

\* identifiers of the grammar: fields of the records, a name that is no
\* field, and names of attributes every tuple or every object has
PartNames == {"id", "name", "parent_label", "nope", "count", "__class__"}

FieldPaths == UNION {[1..n -> PartNames] : n \in 1..MaxParts}

\* literals: null, a number, true, and two strings
Literals == {None, IntV(1), BoolV(TRUE), StrV(<<65>>), StrV(<<49>>)}

CompareStart ==
  /\ cRecord \in CompareRecords
  /\ cField \in FieldPaths
  /\ cOp \in Ops
  /\ cTarget \in Literals
  /\ cValue = None
  /\ cResult = FALSE
  /\ cPc = "new"

\* line 143: field_value = _get_field_value(record, str(parsed["field"]))
CompareResolve ==
  /\ cPc = "new"
  /\ cValue' = _get_field_value(cRecord, cField)
  /\ cPc' = "resolved"
  /\ UNCHANGED <<cRecord, cField, cOp, cTarget, cResult>>

\* line 144: return _compare(field_value, str(parsed["op"]), parsed["value"])
CompareApply ==
  /\ cPc = "resolved"
  /\ cResult' = _compare(cValue, cOp, cTarget)
  /\ cPc' = "compared"
  /\ UNCHANGED <<cRecord, cField, cOp, cTarget, cValue>>

CompareInit ==
  FilterIdle /\ FeIdle /\ summary = None /\ DriverIdle /\ OthersIdle("compare") /\ CompareStart

CompareNext ==
  \/ CompareResolve /\ UNCHANGED exceptCompare
  \/ CompareApply /\ UNCHANGED exceptCompare

SpecCompare == CompareInit /\ [][CompareNext]_vars

(***************************************************************************)
(* SpecChain: one call FilterChain(filters)(record), one iteration of its  *)
(* loop at a time, and for a chain of three filters the call of the        *)
(* regrouped chain.                                                        *)
(***************************************************************************)
NameIsNull == <<Cmp(<<"name">>, "==", None)>>

ChainFilters ==
  {ExpressionFilter(DropIdOne), ExpressionFilter(NameIsNull),
   UnsetFields({}), UnsetFields({"name"}), UnsetFields({"name", "nope"}),
   UnsetFields({"count"})}

ChainLists == UNION {[1..n -> ChainFilters] : n \in 0..MaxChain}

\* FilterChain(filters)(record) up to the first iteration
ChainStart ==
  /\ chFilters \in ChainLists
  /\ chRecord \in FilterRecords
  /\ chIdx = 1
  /\ chCur = chRecord
  /\ chFresh = FALSE
  /\ chLog = <<>>
  /\ chResult = None
  /\ chNested = None
  /\ chPc = "loop"

\* a faulty iteration: `record = result` is missing, the next filter gets the
\* record the chain received
ChainStepFeedsInput ==
  /\ chPc = "loop"
  /\ chIdx <= Len(chFilters)
  /\ LET returned == FilterCall(chFilters[chIdx], chRecord)
     IN /\ chLog' = Append(chLog, [idx |-> chIdx, arg |-> chRecord, res |-> returned])
        /\ IF returned.drop
           THEN chResult' = Dropped /\ chPc' = "returned" /\ UNCHANGED <<chCur, chFresh, chIdx>>
           ELSE IF IsRaised(returned)
           THEN chResult' = returned /\ chPc' = "raised" /\ UNCHANGED <<chCur, chFresh, chIdx>>
           ELSE /\ chCur' = returned.record
                /\ chFresh' = (chFresh \/ returned.fresh)
                /\ chIdx' = chIdx + 1
                /\ UNCHANGED <<chResult, chPc>>
  /\ UNCHANGED <<chFilters, chRecord, chNested>>

\* lines 189-193: one iteration of `for f in self.filters`
ChainStep ==
  /\ chPc = "loop"
  /\ chIdx <= Len(chFilters)
  /\ LET returned == FilterCall(chFilters[chIdx], chCur)
     IN /\ chLog' = Append(chLog, [idx |-> chIdx, arg |-> chCur, res |-> returned])
        /\ IF returned.drop
           THEN chResult' = Dropped /\ chPc' = "returned" /\ UNCHANGED <<chCur, chFresh, chIdx>>
           ELSE IF IsRaised(returned)
           THEN chResult' = returned /\ chPc' = "raised" /\ UNCHANGED <<chCur, chFresh, chIdx>>
           ELSE /\ chCur' = returned.record
                /\ chFresh' = (chFresh \/ returned.fresh)
                /\ chIdx' = chIdx + 1
                /\ UNCHANGED <<chResult, chPc>>
  /\ UNCHANGED <<chFilters, chRecord, chNested>>

\* line 194: return record
ChainReturn ==
  /\ chPc = "loop"
  /\ chIdx > Len(chFilters)
  /\ chResult' = Kept(chCur, chFresh)
  /\ chPc' = "returned"
  /\ UNCHANGED <<chFilters, chRecord, chIdx, chCur, chFresh, chLog, chNested>>

\* FilterChain([a, FilterChain([b, c])])(record) for the chain [a, b, c]
ChainRegrouped ==
  /\ chPc \in {"returned", "raised"}
  /\ Len(chFilters) = 3
  /\ chNested' = FilterCall(FilterChain(<<chFilters[1],
                                          FilterChain(<<chFilters[2], chFilters[3]>>)>>),
                            chRecord)
  /\ chPc' = "regrouped"
  /\ UNCHANGED <<chFilters, chRecord, chIdx, chCur, chFresh, chLog, chResult>>

ChainInit ==
  FilterIdle /\ FeIdle /\ summary = None /\ DriverIdle /\ OthersIdle("chain") /\ ChainStart

ChainNext ==
  \/ ChainStep /\ UNCHANGED exceptChain
  \/ ChainReturn /\ UNCHANGED exceptChain
  \/ ChainRegrouped /\ UNCHANGED exceptChain

SpecChain == ChainInit /\ [][ChainNext]_vars

(***************************************************************************)
(* SpecJson: one JsonWriter used as the context manager of a with          *)
(* statement.  The records written are dataclass instances (the records of *)
(* the writers' tests) or NamedTuple instances (the records of models.py,  *)
(* the ones the parsers yield).  jwOut is the sequence of the strings      *)
(* written to the file.                                                    *)
(***************************************************************************)
DataclassV(fieldValues) == [t |-> "dataclass", v |-> fieldValues]

is_dataclass(value) == value.t = "dataclass"

\* dataclasses.asdict: the dict of the fields of a dataclass instance,
\* TypeError for any other value
asdict(record) ==
  IF is_dataclass(record) THEN [t |-> "dict", v |-> record.v] ELSE Raised("TypeError")

\* a string written to a text file
Text(string) == [t |-> "text", s |-> string]

\* json.dumps of a dict: the text of one JSON object
dumps(d) == [t |-> "json", object |-> d.v]

JsonRecords ==
  {DataclassV([id |-> IntV(i), name |-> StrV(<<65>>)]) : i \in 1..MaxWrites}
  \cup {ParsedRecord(IntV(1))}

\* JsonWriter.__init__
JsonNew ==
  /\ jwFp = None
  /\ jwFirst = TRUE
  /\ jwOut = <<>>
  /\ jwDone = <<>>
  /\ jwCalls = 0
  /\ jwExc = ""
  /\ jwPc = "new"

\* JsonWriter.__enter__
JsonEnter ==
  /\ jwPc = "new"
  /\ jwFp' = Object("open file")
  /\ jwOut' = Append(jwOut, Text("[\n"))
  /\ jwFirst' = TRUE
  /\ jwPc' = "body"
  /\ UNCHANGED <<jwDone, jwCalls, jwExc>>

\* JsonWriter.write, called in the body of the with statement
JsonWrite ==
  /\ jwPc = "body"
  /\ jwCalls < MaxWrites
  /\ jwCalls' = jwCalls + 1
  /\ \E record \in JsonRecords :
       IF jwFp = None
       THEN UNCHANGED <<jwFp, jwFirst, jwOut, jwDone, jwExc, jwPc>>
       ELSE LET separated == IF jwFirst THEN jwOut ELSE Append(jwOut, Text(",\n"))
                d == asdict(record)
            IN /\ jwFirst' = FALSE
               /\ IF IsRaised(d)
                  THEN /\ jwOut' = separated
                       /\ jwExc' = d.error
                       /\ jwPc' = "raising"
                       /\ UNCHANGED jwDone
                  ELSE /\ jwOut' = Append(separated, dumps(d))
                       /\ jwDone' = Append(jwDone, record)
                       /\ UNCHANGED <<jwExc, jwPc>>
               /\ UNCHANGED jwFp

\* another statement of the body raises (execute, on an unhandled element)
JsonBodyRaises ==
  /\ jwPc = "body"
  /\ jwExc' = "UnhandledElementError"
  /\ jwPc' = "raising"
  /\ UNCHANGED <<jwFp, jwFirst, jwOut, jwDone, jwCalls>>

\* JsonWriter.__exit__, at the end of the body or on its exception
JsonExit ==
  /\ jwPc \in {"body", "raising"}
  /\ IF jwFp # None
     THEN jwOut' = Append(jwOut, Text("\n]\n")) /\ jwFp' = Object("closed file")
     ELSE UNCHANGED <<jwOut, jwFp>>
  /\ jwPc' = IF jwPc = "body" THEN "closed" ELSE "failed"
  /\ UNCHANGED <<jwFirst, jwDone, jwCalls, jwExc>>

JsonInit ==
  FilterIdle /\ FeIdle /\ summary = None /\ DriverIdle /\ OthersIdle("json") /\ JsonNew

JsonNext ==
  \/ JsonEnter /\ UNCHANGED exceptJson
  \/ JsonWrite /\ UNCHANGED exceptJson
  \/ JsonBodyRaises /\ UNCHANGED exceptJson
  \/ JsonExit /\ UNCHANGED exceptJson

SpecJson == JsonInit /\ [][JsonNext]_vars

(***************************************************************************)
(* SpecSink: the with statements of convert and load around execute.       *)
(* execute is seen from the writer's side: a number of writer.write calls  *)
(* for the records of the file, then a return or an exception.             *)
(***************************************************************************)
FILE_WRITERS ==
  [blackhole |-> "BlackholeWriter", console |-> "ConsoleWriter",
   json |-> "JsonWriter", jsonl |-> "JsonlWriter"]

DATABASE_WRITERS == [postgresql |-> "PostgresWriter", sqlite |-> "SqliteWriter"]

\* the class attribute aggregates_inputs of the writer classes
aggregates_inputs(writer_cls) == writer_cls \notin {"JsonWriter", "JsonlWriter"}

\* valid_paths = [p for p in paths if p.is_file()], as indices into paths
valid_paths(paths) == SelectSeq([i \in 1..Len(paths) |-> i], LAMBDA i : paths[i])

\* the writer is one for the whole run: convert's test of aggregates_inputs;
\* load has the single with statement only
SinkAggregates ==
  IF skCmd = "load" THEN aggregates_inputs(DATABASE_WRITERS[skFormat])
  ELSE aggregates_inputs(FILE_WRITERS[skFormat])

SinkOpens == {k \in 1..Len(skLog) : skLog[k].ev = "open"}

\* the arguments of convert and load
SinkStart ==
  /\ \E cmd \in {"convert", "load"} :
       /\ skCmd = cmd
       /\ skFormat \in (IF cmd = "convert" THEN DOMAIN FILE_WRITERS
                         ELSE DOMAIN DATABASE_WRITERS)
  /\ skPc = IF SinkAggregates THEN "start" ELSE "loop"
  /\ skPaths \in UNION {[1..n -> BOOLEAN] : n \in 0..MaxInputs}
  /\ skFile = 1
  /\ skWriter = 0
  /\ skCount = 0
  /\ skLog = <<>>
  /\ skErr = ""

\* __enter__ of a new writer returns: the sink is open
SinkEnter(path) ==
  LET w == Cardinality(SinkOpens) + 1
  IN /\ skLog' = Append(skLog, [ev |-> "open", w |-> w, path |-> path])
     /\ skWriter' = w

\* __enter__ of a new writer raises: no sink is open, the run ends
SinkEnterRaises ==
  /\ \/ skPc = "start"
     \/ skPc = "loop" /\ ~SinkAggregates /\ skFile <= Len(valid_paths(skPaths))
  /\ skErr' = "OSError"
  /\ skPc' = "failed"
  /\ UNCHANGED <<skCmd, skFormat, skPaths, skFile, skWriter, skCount, skLog>>

\* convert line 304, load lines 379-385: the writer of the whole run
SinkOpenAll ==
  /\ skPc = "start"
  /\ SinkEnter(0)
  /\ skPc' = "loop"
  /\ UNCHANGED <<skCmd, skFormat, skPaths, skFile, skCount, skErr>>

\* convert lines 305-320, load lines 386-399: execute is called for the next
\* path with the writer of the run
SinkExecuteNext ==
  /\ skPc = "loop"
  /\ SinkAggregates
  /\ skFile <= Len(valid_paths(skPaths))
  /\ skCount' = 0
  /\ skPc' = "execute"
  /\ UNCHANGED <<skCmd, skFormat, skPaths, skFile, skWriter, skLog, skErr>>

\* convert lines 325-344: the writer of the next path is opened and execute
\* called with it
SinkOpenFile ==
  /\ skPc = "loop"
  /\ ~SinkAggregates
  /\ skFile <= Len(valid_paths(skPaths))
  /\ SinkEnter(valid_paths(skPaths)[skFile])
  /\ skCount' = 0
  /\ skPc' = "execute"
  /\ UNCHANGED <<skCmd, skFormat, skPaths, skFile, skErr>>

\* execute calls writer.write for one more record of the file
SinkWrite ==
  /\ skPc = "execute"
  /\ skCount < MaxWrites
  /\ skCount' = skCount + 1
  /\ skLog' = Append(skLog, [ev |-> "write", w |-> skWriter,
                              path |-> valid_paths(skPaths)[skFile], n |-> skCount + 1])
  /\ UNCHANGED <<skCmd, skFormat, skPaths, skFile, skWriter, skErr, skPc>>

\* execute raises: the exception leaves every with statement it is in
SinkExecuteRaises ==
  /\ skPc = "execute"
  /\ skErr' = "UnhandledElementError"
  /\ skPc' = "raising"
  /\ UNCHANGED <<skCmd, skFormat, skPaths, skFile, skWriter, skCount, skLog>>

\* a faulty exception path: the writer is not a context manager of a with
\* statement, the exception passes without __exit__ being called
SinkLeakOnError ==
  /\ skPc = "raising"
  /\ skPc' = "failed"
  /\ UNCHANGED <<skCmd, skFormat, skPaths, skFile, skWriter, skCount, skLog, skErr>>

\* the with statement calls __exit__ of the writer with the exception
SinkCloseOnError ==
  /\ skPc = "raising"
  /\ skLog' = Append(skLog, [ev |-> "close", w |-> skWriter, path |-> 0])
  /\ skWriter' = 0
  /\ skPc' = "failed"
  /\ UNCHANGED <<skCmd, skFormat, skPaths, skFile, skCount, skErr>>

\* convert lines 321-323, load line 400: execute returned, the run goes on
\* to the next path with the same writer
SinkAdvance ==
  /\ skPc = "execute"
  /\ SinkAggregates
  /\ skFile' = skFile + 1
  /\ skPc' = "loop"
  /\ UNCHANGED <<skCmd, skFormat, skPaths, skWriter, skCount, skLog, skErr>>

\* convert lines 344-347: execute returned, the with statement of the path
\* ends and calls __exit__ of its writer
SinkCloseFile ==
  /\ skPc = "execute"
  /\ ~SinkAggregates
  /\ skLog' = Append(skLog, [ev |-> "close", w |-> skWriter, path |-> 0])
  /\ skWriter' = 0
  /\ skFile' = skFile + 1
  /\ skPc' = "loop"
  /\ UNCHANGED <<skCmd, skFormat, skPaths, skCount, skErr>>

\* after the last path the with statement of the run ends
SinkCloseAll ==
  /\ skPc = "loop"
  /\ SinkAggregates
  /\ skFile > Len(valid_paths(skPaths))
  /\ skLog' = Append(skLog, [ev |-> "close", w |-> skWriter, path |-> 0])
  /\ skWriter' = 0
  /\ skPc' = "finished"
  /\ UNCHANGED <<skCmd, skFormat, skPaths, skFile, skCount, skErr>>

\* convert line 349: after the last path, no writer being open
SinkReturn ==
  /\ skPc = "loop"
  /\ ~SinkAggregates
  /\ skFile > Len(valid_paths(skPaths))
  /\ skPc' = "finished"
  /\ UNCHANGED <<skCmd, skFormat, skPaths, skFile, skWriter, skCount, skLog, skErr>>

SinkInit ==
  FilterIdle /\ FeIdle /\ summary = None /\ DriverIdle /\ OthersIdle("sink") /\ SinkStart

SinkNext ==
  \/ SinkEnterRaises /\ UNCHANGED exceptSink
  \/ SinkOpenAll /\ UNCHANGED exceptSink
  \/ SinkExecuteNext /\ UNCHANGED exceptSink
  \/ SinkOpenFile /\ UNCHANGED exceptSink
  \/ SinkWrite /\ UNCHANGED exceptSink
  \/ SinkExecuteRaises /\ UNCHANGED exceptSink
  \/ SinkCloseOnError /\ UNCHANGED exceptSink
  \/ SinkAdvance /\ UNCHANGED exceptSink
  \/ SinkCloseFile /\ UNCHANGED exceptSink
  \/ SinkCloseAll /\ UNCHANGED exceptSink
  \/ SinkReturn /\ UNCHANGED exceptSink

SpecSink == SinkInit /\ [][SinkNext]_vars

(***************************************************************************)
(* SpecSql: one relational writer (SqliteWriter, PostgresWriter) used as   *)
(* the context manager of a with statement.  Names of fields, tables and   *)
(* resource files are sequences of characters.  A type is a record with a  *)
(* tag t: a builtin, a list type, a dataclass or a NamedTuple class ("rec",*)
(* the classes of models.py).  The state of the writer is a record that    *)
(* the methods pass along: _tables, _buffers (with the order of its keys), *)
(* _junction_fields, _records_since_commit, the statements executed on the *)
(* connection (db) and the history of the rows appended to the buffers.    *)
(***************************************************************************)
F_id == <<"i", "d">>
F_name == <<"n", "a", "m", "e">>
F_aliases == <<"a", "l", "i", "a", "s", "e", "s">>
F_urls == <<"u", "r", "l", "s">>
T_artist == <<"a", "r", "t", "i", "s", "t">>
T_label == <<"l", "a", "b", "e", "l">>
T_masterrelease == <<"m", "a", "s", "t", "e", "r", "r", "e", "l", "e", "a", "s", "e">>
T_release == <<"r", "e", "l", "e", "a", "s", "e">>

EndsWith(name, suffix) ==
  /\ Len(name) >= Len(suffix)
  /\ SubSeq(name, Len(name) - Len(suffix) + 1, Len(name)) = suffix

_singularize(name) ==
  IF EndsWith(name, <<"i", "e", "s">>) THEN SubSeq(name, 1, Len(name) - 3) \o <<"y">>
  ELSE IF EndsWith(name, <<"e", "s">>) THEN SubSeq(name, 1, Len(name) - 2)
  ELSE IF EndsWith(name, <<"s">>) THEN SubSeq(name, 1, Len(name) - 1)
  ELSE name

\* str.lower, on the capital letters of the class names
lower(name) ==
  [i \in 1..Len(name) |->
     CASE name[i] = "A" -> "a" [] name[i] = "L" -> "l" [] name[i] = "R" -> "r"
       [] OTHER -> name[i]]

IntT == [t |-> "builtin", cls |-> "int"]

StrT == [t |-> "builtin", cls |-> "str"]

ListT(elem) == [t |-> "list", elem |-> elem]

\* a record class: kind is "dataclass" or "rec" (NamedTuple)
ClassT(kind, cls) == [t |-> kind, cls |-> cls]

\* an instance of a record class, and a Python list
Instance(kind, cls, fieldValues) == [t |-> kind, cls |-> cls, v |-> fieldValues]

ListV(items) == [t |-> "list", v |-> items]

\* type(record).__name__
__name__(cls) ==
  CASE cls = "Artist" -> <<"A", "r", "t", "i", "s", "t">>
    [] cls = "ArtistRef" -> <<"A", "r", "t", "i", "s", "t", "R", "e", "f">>
    [] cls = "Label" -> <<"L", "a", "b", "e", "l">>

\* the names of the fields of a class in definition order: the keys of
\* __annotations__, and what dataclasses.fields yields for a dataclass
FieldOrder(cls) ==
  IF cls = "Artist" THEN <<F_id, F_name, F_aliases, F_urls>> ELSE <<F_id, F_name>>

\* type(record).__annotations__
__annotations__(kind, cls) ==
  [f \in {FieldOrder(cls)[i] : i \in 1..Len(FieldOrder(cls))} |->
     CASE f = F_id -> IntT
       [] f = F_name -> StrT
       [] f = F_aliases -> ListT(ClassT(kind, "ArtistRef"))
       [] f = F_urls -> ListT(StrT)]

_get_list_element_type(field_type) ==
  IF field_type.t = "list" THEN field_type.elem ELSE None

_TABLE_FILE_MAP == {T_artist, T_label, T_masterrelease, T_release}

\* table_name.split("_")[0]
Prefix(table_name) ==
  LET k == CHOOSE i \in 1..Len(table_name) :
             table_name[i] = "_" /\ \A j \in 1..(i - 1) : table_name[j] # "_"
  IN SubSeq(table_name, 1, k - 1)

_get_sql_file_for_table(table_name) ==
  IF table_name \in _TABLE_FILE_MAP THEN table_name
  ELSE IF \E i \in 1..Len(table_name) : table_name[i] = "_"
       THEN IF Prefix(table_name) \in _TABLE_FILE_MAP THEN Prefix(table_name)
            ELSE table_name
       ELSE table_name

\* the columns of the CREATE TABLE statement the package ships for a main
\* table: the scalar fields, and with resources "json" the urls list too
CannedColumns(resources, name) ==
  IF name = T_artist /\ resources = "json" THEN {F_id, F_name, F_urls}
  ELSE {F_id, F_name}

\* _load_sql: None when the package has no resource file for the table's
\* entity; the CREATE TABLE statement of the table (category "tables"), or
\* the whole file (any other category)
_load_sql(resources, category, name) ==
  LET sql_file == _get_sql_file_for_table(name)
  IN IF resources = "none" THEN None
     ELSE IF sql_file \notin _TABLE_FILE_MAP THEN None
     ELSE IF category # "tables" THEN [t |-> "sql", file |-> sql_file]
     ELSE [t |-> "sql", table |-> name, columns |-> CannedColumns(resources, name)]

\* d[key] = value on a dict
Put(d, key, value) ==
  [k \in DOMAIN d \cup {key} |-> IF k = key THEN value ELSE d[k]]

\* self._conn.execute(statement)
Exec(self, statement) == [self EXCEPT !.db = Append(@, statement)]

\* self._tables.add(table); self._buffers[table] = []
Register(self, table) ==
  [self EXCEPT !._tables = @ \cup {table},
               !._buffers = Put(@, table, <<>>),
               !.order = IF table \in DOMAIN self._buffers THEN @ ELSE Append(@, table)]

\* the fields of the record that go to a junction table
JunctionFieldsOf(annotations, schema_columns) ==
  {f \in DOMAIN annotations :
     LET elem_type == _get_list_element_type(annotations[f])
     IN /\ elem_type # None
        /\ (elem_type = IntT \/ elem_type = StrT \/ is_dataclass(elem_type))
        /\ (schema_columns = {} \/ f \notin schema_columns)}

\* the fields of a class that are in a set, in definition order
FieldsIn(cls, names) == SelectSeq(FieldOrder(cls), LAMBDA f : f \in names)

RECURSIVE CreateJunctions(_, _, _, _)
\* the loop of _ensure_table over junction_fields (in definition order)
CreateJunctions(self, opts, table_name, junction_fields) ==
  IF junction_fields = <<>> THEN self
  ELSE LET junction_table == table_name \o <<"_">> \o _singularize(Head(junction_fields))
           sql == _load_sql(opts.resources, "tables", junction_table)
           dropped == Exec(self, [ev |-> "drop", table |-> junction_table])
           created == Exec(dropped, [ev |-> "create", table |-> junction_table,
                                     canned |-> sql # None])
       IN CreateJunctions(Register(created, junction_table), opts, table_name,
                          Tail(junction_fields))

\* a faulty _ensure_table: the test `table_name in self._tables` is missing
_ensure_table_every_write(self, opts, record) ==
  LET table_name == lower(__name__(record.cls))
      annotations == __annotations__(record.t, record.cls)
      dropped == Exec(self, [ev |-> "drop", table |-> table_name])
      sql == _load_sql(opts.resources, "tables", table_name)
      loaded == IF sql # None
                THEN Exec(dropped, [ev |-> "create", table |-> table_name, canned |-> TRUE])
                ELSE dropped
      schema_columns == IF sql # None THEN sql.columns ELSE {}
      junction_fields == JunctionFieldsOf(annotations, schema_columns)
      cached == [loaded EXCEPT !._junction_fields = Put(@, table_name, junction_fields)]
      created == IF sql = None
                 THEN Exec(cached, [ev |-> "create", table |-> table_name, canned |-> FALSE])
                 ELSE cached
  IN IF (opts.kind = "postgresql" \/ sql = None) /\ ~is_dataclass(record)
     THEN [self |-> cached, error |-> "TypeError"]
     ELSE [self |-> CreateJunctions(Register(created, table_name), opts, table_name,
                                    FieldsIn(record.cls, junction_fields)),
           error |-> ""]

\* _ensure_table: the writer afterwards and the exception raised ("" for
\* none).  dataclasses.fields raises TypeError for a record that is not a
\* dataclass instance: SqliteWriter calls it when there is no canned
\* statement, PostgresWriter always.
_ensure_table(self, opts, record) ==
  LET table_name == lower(__name__(record.cls))
      annotations == __annotations__(record.t, record.cls)
      dropped == Exec(self, [ev |-> "drop", table |-> table_name])
      sql == _load_sql(opts.resources, "tables", table_name)
      loaded == IF sql # None
                THEN Exec(dropped, [ev |-> "create", table |-> table_name, canned |-> TRUE])
                ELSE dropped
      schema_columns == IF sql # None THEN sql.columns ELSE {}
      junction_fields == JunctionFieldsOf(annotations, schema_columns)
      cached == [loaded EXCEPT !._junction_fields = Put(@, table_name, junction_fields)]
      created == IF sql = None
                 THEN Exec(cached, [ev |-> "create", table |-> table_name, canned |-> FALSE])
                 ELSE cached
  IN IF table_name \in self._tables THEN [self |-> self, error |-> ""]
     ELSE IF (opts.kind = "postgresql" \/ sql = None) /\ ~is_dataclass(record)
          THEN [self |-> cached, error |-> "TypeError"]
     ELSE [self |-> CreateJunctions(Register(created, table_name), opts, table_name,
                                    FieldsIn(record.cls, junction_fields)),
           error |-> ""]

\* a faulty _flush: the rows are inserted, the buffer is not cleared
_flush_keeps_rows(self, table_name) ==
  IF table_name \notin DOMAIN self._buffers THEN self
  ELSE IF self._buffers[table_name] = <<>> THEN self
  ELSE Exec(self, [ev |-> "insert", table |-> table_name,
                   rows |-> self._buffers[table_name]])

\* _flush: executemany / COPY of the rows of the buffer, then buffer.clear()
_flush(self, table_name) ==
  IF table_name \notin DOMAIN self._buffers THEN self
  ELSE IF self._buffers[table_name] = <<>> THEN self
  ELSE [Exec(self, [ev |-> "insert", table |-> table_name,
                    rows |-> self._buffers[table_name]])
          EXCEPT !._buffers[table_name] = <<>>]

RECURSIVE FlushFrom(_, _)
FlushFrom(self, i) ==
  IF i > Len(self.order) THEN self ELSE FlushFrom(_flush(self, self.order[i]), i + 1)

\* _flush_all: the buffers in the order of the keys of the dict
_flush_all(self) == FlushFrom(self, 1)

\* self._buffers[table].append(row) for each of the rows
AppendRows(self, table, rows) ==
  [self EXCEPT !._buffers[table] = @ \o rows,
               !.appended = @ \o [i \in 1..Len(rows) |-> [table |-> table, row |-> rows[i]]]]

\* if len(self._buffers[table]) >= self.batch_size: self._flush(table)
FlushIfFull(self, opts, table) ==
  IF Len(self._buffers[table]) >= opts.batch_size THEN _flush(self, table) ELSE self

\* the value of a field in the row of the main table
MainValue(opts, value) ==
  IF value.t = "list"
  THEN IF opts.kind = "sqlite" THEN dumps(value)
       ELSE IF value.v # <<>> /\ is_dataclass(value.v[1])
            THEN dumps(ListV([i \in 1..Len(value.v) |-> asdict(value.v[i])]))
            ELSE value
  ELSE IF is_dataclass(value) THEN dumps(asdict(value))
  ELSE value

\* _dataclass_to_row of an item without list fields
_dataclass_to_row(obj) ==
  [i \in 1..Len(FieldOrder(obj.cls)) |-> obj.v[FieldOrder(obj.cls)[i]]]

\* the rows one record brings to the junction table of a field
JunctionRows(record, record_id, field) ==
  LET values == record.v[field]
      elem_type == _get_list_element_type(__annotations__(record.t, record.cls)[field])
  IN IF values = None THEN <<>>
     ELSE [i \in 1..Len(values.v) |->
             IF is_dataclass(elem_type) THEN <<record_id>> \o _dataclass_to_row(values.v[i])
             ELSE <<record_id, values.v[i]>>]

RECURSIVE WriteJunctions(_, _, _, _, _)
\* the loop of write over junction_fields (in definition order)
WriteJunctions(self, opts, record, table_name, junction_fields) ==
  IF junction_fields = <<>> THEN self
  ELSE LET field == Head(junction_fields)
           junction_table == table_name \o <<"_">> \o _singularize(field)
           rows == JunctionRows(record, record.v[FieldOrder(record.cls)[1]], field)
           appended == IF rows = <<>> THEN self
                       ELSE FlushIfFull(AppendRows(self, junction_table, rows), opts,
                                        junction_table)
       IN WriteJunctions(appended, opts, record, table_name, Tail(junction_fields))

\* a faulty periodic commit: the test is > where the code has >=
PeriodicCommitLate(self, opts) ==
  IF opts.commit_interval = 0 THEN self
  ELSE IF self._records_since_commit + 1 > opts.commit_interval
       THEN [Exec(_flush_all(self), [ev |-> "commit"]) EXCEPT !._records_since_commit = 0]
       ELSE [self EXCEPT !._records_since_commit = @ + 1]

\* PostgresWriter.write, lines 899-905: the periodic commit; commit_interval
\* 0 stands for None
PeriodicCommit(self, opts) ==
  IF opts.commit_interval = 0 THEN self
  ELSE IF self._records_since_commit + 1 >= opts.commit_interval
       THEN [Exec(_flush_all(self), [ev |-> "commit"]) EXCEPT !._records_since_commit = 0]
       ELSE [self EXCEPT !._records_since_commit = @ + 1]

\* write: the writer afterwards and the exception raised ("" for none)
write(self, opts, record) ==
  LET ensured == _ensure_table(self, opts, record)
      table_name == lower(__name__(record.cls))
      junction_fields == ensured.self._junction_fields[table_name]
      field_names == FieldOrder(record.cls)
      columns == SelectSeq(field_names, LAMBDA f : f \notin junction_fields)
      main_values == [i \in 1..Len(columns) |-> MainValue(opts, record.v[columns[i]])]
      main == FlushIfFull(AppendRows(ensured.self, table_name, <<main_values>>), opts,
                          table_name)
      junctions == WriteJunctions(main, opts, record, table_name,
                                  FieldsIn(record.cls, junction_fields))
  IN IF ensured.error # "" THEN ensured
     ELSE IF ~is_dataclass(record) THEN [self |-> ensured.self, error |-> "TypeError"]
     ELSE [self |-> PeriodicCommit(junctions, opts), error |-> ""]

RECURSIVE IndexFrom(_, _, _, _)
\* the loop of _create_indices over the tables, taken in the order `tables`
IndexFrom(self, opts, tables, executed_files) ==
  IF tables = <<>> THEN self
  ELSE LET sql_file == _get_sql_file_for_table(Head(tables))
           sql == _load_sql(opts.resources, "indices", Head(tables))
       IN IF sql_file \in executed_files \/ sql = None
          THEN IndexFrom(self, opts, Tail(tables), executed_files)
          ELSE IndexFrom(Exec(self, [ev |-> "index", file |-> sql.file]), opts,
                         Tail(tables), executed_files \cup {sql_file})

_create_indices(self, opts, tables) == IndexFrom(self, opts, tables, {})

\* the orders in which a loop can go through a set
Orders(S) ==
  {o \in [1..Cardinality(S) -> S] : \A i, j \in 1..Cardinality(S) : o[i] = o[j] => i = j}

\* the records handed to write: dataclass instances, and NamedTuple
\* instances of models.py
ArtistRef(kind, i) ==
  Instance(kind, "ArtistRef", [f \in {F_id, F_name} |->
                                 IF f = F_id THEN IntV(100 * i) ELSE StrV(<<65 + i>>)])

SqlRecords(id) ==
  {Instance("dataclass", "Artist",
            [f \in {F_id, F_name, F_aliases, F_urls} |->
               CASE f = F_id -> IntV(id)
                 [] f = F_name -> StrV(<<65>>)
                 [] f = F_aliases -> ListV([i \in 1..k |-> ArtistRef("dataclass", i)])
                 [] f = F_urls -> urls]) :
     k \in {0, MaxElems}, urls \in {None, ListV(<<StrV(<<117>>)>>)}}
  \cup {Instance("dataclass", "Label",
                 [f \in {F_id, F_name} |-> IF f = F_id THEN IntV(id) ELSE StrV(<<65>>)])}
  \cup {Instance("rec", "Artist",
                 [f \in {F_id, F_name, F_aliases, F_urls} |->
                    CASE f = F_id -> IntV(id)
                      [] f = F_name -> StrV(<<65>>)
                      [] f = F_aliases -> ListV(<<ArtistRef("rec", 1), ArtistRef("rec", 2)>>)
                      [] f = F_urls -> ListV(<<StrV(<<117>>)>>)])}

\* the arguments of the constructor and the resources of the package;
\* SqliteWriter has no commit_interval
SqlConfigs ==
  {opts \in [kind : {"sqlite", "postgresql"}, batch_size : 1..MaxBatch,
            commit_interval : 0..MaxBatch, resources : {"none", "canned", "json"}] :
     opts.kind = "sqlite" => opts.commit_interval = 0}

\* __init__
SqlStart ==
  /\ sqCfg \in SqlConfigs
  /\ sqConn = "none"
  /\ sqSelf = [_tables |-> {}, _buffers |-> <<>>, order |-> <<>>, _junction_fields |-> <<>>,
               _records_since_commit |-> 0, db |-> <<>>, appended |-> <<>>]
  /\ sqCalls = 0
  /\ sqLast = None
  /\ sqExc = ""
  /\ sqPc = "new"

\* __enter__
SqlEnter ==
  /\ sqPc = "new"
  /\ sqConn' = "open"
  /\ sqPc' = "body"
  /\ UNCHANGED <<sqCfg, sqSelf, sqCalls, sqLast, sqExc>>

\* write, called in the body of the with statement; the n-th record written
\* has id n
SqlWrite ==
  /\ sqPc = "body"
  /\ sqCalls < MaxRows
  /\ sqCalls' = sqCalls + 1
  /\ \E record \in SqlRecords(sqCalls + 1) :
       LET written == IF sqConn = "none" THEN [self |-> sqSelf, error |-> ""]
                      ELSE write(sqSelf, sqCfg, record)
       IN /\ sqSelf' = written.self
          /\ sqLast' = [record |-> record, before |-> Len(sqSelf.appended),
                        error |-> written.error]
          /\ sqExc' = written.error
          /\ sqPc' = IF written.error = "" THEN "body" ELSE "raising"
  /\ UNCHANGED <<sqCfg, sqConn>>

\* another statement of the body raises (execute, on an unhandled element)
SqlBodyRaises ==
  /\ sqPc = "body"
  /\ sqExc' = "UnhandledElementError"
  /\ sqPc' = "raising"
  /\ UNCHANGED <<sqCfg, sqConn, sqSelf, sqCalls, sqLast>>

\* a faulty __exit__: the test of exc_type is missing
SqlExitAlwaysIndexes ==
  /\ sqPc \in {"body", "raising"}
  /\ IF sqConn = "none" THEN UNCHANGED <<sqSelf, sqConn>>
     ELSE /\ \E tables \in Orders(sqSelf._tables) :
               LET flushed == _flush_all(sqSelf)
                   indexed == _create_indices(flushed, sqCfg, tables)
                   analyzed == IF sqCfg.kind = "sqlite"
                               THEN Exec(indexed, [ev |-> "analyze"]) ELSE indexed
               IN sqSelf' = Exec(Exec(analyzed, [ev |-> "commit"]), [ev |-> "close"])
          /\ sqConn' = "closed"
  /\ sqPc' = IF sqPc = "body" THEN "closed" ELSE "failed"
  /\ UNCHANGED <<sqCfg, sqCalls, sqLast, sqExc>>

\* a faulty __exit__: on an exception the session is rolled back and the
\* buffered rows are left where they are
SqlExitRollsBack ==
  /\ sqPc \in {"body", "raising"}
  /\ IF sqConn = "none" THEN UNCHANGED <<sqSelf, sqConn>>
     ELSE /\ \E tables \in Orders(sqSelf._tables) :
               LET flushed == _flush_all(sqSelf)
                   indexed == _create_indices(flushed, sqCfg, tables)
                   analyzed == IF sqCfg.kind = "sqlite"
                               THEN Exec(indexed, [ev |-> "analyze"]) ELSE indexed
               IN sqSelf' = IF sqPc = "body"
                            THEN Exec(Exec(analyzed, [ev |-> "commit"]), [ev |-> "close"])
                            ELSE Exec(Exec(sqSelf, [ev |-> "rollback"]), [ev |-> "close"])
          /\ sqConn' = "closed"
  /\ sqPc' = IF sqPc = "body" THEN "closed" ELSE "failed"
  /\ UNCHANGED <<sqCfg, sqCalls, sqLast, sqExc>>

\* __exit__, at the end of the body or on its exception
SqlExit ==
  /\ sqPc \in {"body", "raising"}
  /\ IF sqConn = "none" THEN UNCHANGED <<sqSelf, sqConn>>
     ELSE /\ \E tables \in Orders(sqSelf._tables) :
               LET flushed == _flush_all(sqSelf)
                   indexed == _create_indices(flushed, sqCfg, tables)
                   analyzed == IF sqCfg.kind = "sqlite"
                               THEN Exec(indexed, [ev |-> "analyze"]) ELSE indexed
                   finished == IF sqPc = "body" THEN analyzed ELSE flushed
               IN sqSelf' = Exec(Exec(finished, [ev |-> "commit"]), [ev |-> "close"])
          /\ sqConn' = "closed"
  /\ sqPc' = IF sqPc = "body" THEN "closed" ELSE "failed"
  /\ UNCHANGED <<sqCfg, sqCalls, sqLast, sqExc>>

RECURSIVE FlushFirst(_, _)
\* the loop of _flush_all after its first n tables
FlushFirst(self, n) ==
  IF n = 0 THEN self ELSE _flush(FlushFirst(self, n - 1), self.order[n])

\* a call on the connection raises: PostgresWriter._flush and
\* PostgresWriter._create_indices roll back and re-raise, everything else
\* lets the exception through
Fails(self, opts, statement) ==
  LET failed == Exec(self, [ev |-> "error", at |-> statement])
  IN IF opts.kind = "postgresql" /\ statement \in {"flush", "index"}
     THEN Exec(failed, [ev |-> "rollback"])
     ELSE failed

\* __exit__ when a call on the connection raises: the flush of a buffer that
\* holds rows, an index statement, ANALYZE or the commit.  The exception
\* leaves __exit__ at that statement: the statements after it are not run.
SqlExitRaises ==
  /\ sqPc \in {"body", "raising"}
  /\ sqConn = "open"
  /\ \E tables \in Orders(sqSelf._tables) :
       LET flushed == _flush_all(sqSelf)
           indexed == _create_indices(flushed, sqCfg, tables)
           analyzed == IF sqCfg.kind = "sqlite"
                       THEN Exec(indexed, [ev |-> "analyze"]) ELSE indexed
           finished == IF sqPc = "body" THEN analyzed ELSE flushed
       IN \/ \E n \in 1..Len(sqSelf.order) :
               /\ FlushFirst(sqSelf, n - 1)._buffers[sqSelf.order[n]] # <<>>
               /\ sqSelf' = Fails(FlushFirst(sqSelf, n - 1), sqCfg, "flush")
          \/ \E m \in 1..Len(tables) :
               LET before == _create_indices(flushed, sqCfg, SubSeq(tables, 1, m - 1))
               IN /\ sqPc = "body"
                  /\ _create_indices(flushed, sqCfg, SubSeq(tables, 1, m)) # before
                  /\ sqSelf' = Fails(before, sqCfg, "index")
          \/ /\ sqPc = "body"
             /\ sqCfg.kind = "sqlite"
             /\ sqSelf' = Fails(indexed, sqCfg, "analyze")
          \/ sqSelf' = Fails(finished, sqCfg, "commit")
  /\ sqPc' = "broken"
  /\ UNCHANGED <<sqCfg, sqConn, sqCalls, sqLast, sqExc>>

SqlInit ==
  FilterIdle /\ FeIdle /\ summary = None /\ DriverIdle /\ OthersIdle("sql") /\ SqlStart

SqlNext ==
  \/ SqlEnter /\ UNCHANGED exceptSql
  \/ SqlWrite /\ UNCHANGED exceptSql
  \/ SqlBodyRaises /\ UNCHANGED exceptSql
  \/ SqlExit /\ UNCHANGED exceptSql
  \/ SqlExitRaises /\ UNCHANGED exceptSql

SpecSql == SqlInit /\ [][SqlNext]_vars

(***************************************************************************)
(* SpecTrack: one TrackingElement under any sequence of calls of find,     *)
(* findall, findtext, get, text and of steps of its iteration, and of get  *)
(* and text on the wrappers of its children.  Tags, attribute names and    *)
(* paths are sequences of characters.  Elements are numbered: 0 is the     *)
(* element wrapped, i its i-th child.  A method returns the heap after the *)
(* call and the wrappers it returns (a sequence of positions in the heap,  *)
(* empty for None).                                                        *)
(***************************************************************************)
Tags == {<<"a">>, <<"b">>}

Attrs == {<<"i", "d">>}

\* the raw element of a number
Raw(tree, e) ==
  IF e = 0 THEN tree
  ELSE [attrib |-> tree.kids[e].attrib, text |-> tree.kids[e].text, kids |-> <<>>]

\* elem.findall(tag) of the raw element: the numbers of the children of
\* that tag, in document order
RawFindall(tree, e, tag) ==
  LET kids == Raw(tree, e).kids
  IN SelectSeq([i \in 1..Len(kids) |-> i], LAMBDA i : kids[i].tag = tag)

\* TrackingElement(elem, path)
TrackingElement(e) ==
  [elem |-> e, _accessed_tags |-> {}, _accessed_attrs |-> {}, _accessed_text |-> FALSE,
   _children |-> <<>>]

\* self._accessed_tags.add(tag)
Looked(heap, w, tag) == [heap EXCEPT ![w]._accessed_tags = @ \cup {tag}]

find(tree, heap, w, tag) ==
  LET looked == Looked(heap, w, tag)
      found == RawFindall(tree, heap[w].elem, tag)
      new == Len(heap) + 1
  IN IF found = <<>> THEN [heap |-> looked, value |-> <<>>]
     ELSE IF tag \notin DOMAIN heap[w]._children
     THEN [heap |-> Append([looked EXCEPT ![w]._children = Put(@, tag, <<new>>)],
                           TrackingElement(found[1])),
           value |-> <<new>>]
     ELSE [heap |-> looked, value |-> <<heap[w]._children[tag][1]>>]

findall(tree, heap, w, tag) ==
  LET looked == Looked(heap, w, tag)
      found == RawFindall(tree, heap[w].elem, tag)
      new == [i \in 1..Len(found) |-> Len(heap) + i]
  IN IF tag \notin DOMAIN heap[w]._children
     THEN [heap |-> [looked EXCEPT ![w]._children = Put(@, tag, new)]
                      \o [i \in 1..Len(found) |-> TrackingElement(found[i])],
           value |-> new]
     ELSE [heap |-> looked, value |-> heap[w]._children[tag]]

findtext(tree, heap, w, tag) == [heap |-> Looked(heap, w, tag), value |-> <<>>]

get(tree, heap, w, attr) ==
  [heap |-> [heap EXCEPT ![w]._accessed_attrs = @ \cup {attr}], value |-> <<>>]

text(tree, heap, w) ==
  [heap |-> [heap EXCEPT ![w]._accessed_text = TRUE], value |-> <<>>]

\* one step of the generator of __iter__ that is at child number pos: the
\* body of the for loop up to the yield
__iter__(tree, heap, w, pos) ==
  LET tag == Raw(tree, heap[w].elem).kids[pos].tag
      looked == Looked(heap, w, tag)
      new == Len(heap) + 1
      wrappers == IF tag \in DOMAIN heap[w]._children THEN heap[w]._children[tag] ELSE <<>>
  IN [heap |-> Append([looked EXCEPT ![w]._children = Put(@, tag, Append(wrappers, new))],
                      TrackingElement(pos)),
      value |-> <<new>>]

\* str.strip, on the code of the space
RECURSIVE strip(_)
strip(codes) ==
  IF codes = <<>> THEN codes
  ELSE IF Head(codes) = 32 THEN strip(Tail(codes))
  ELSE IF codes[Len(codes)] = 32 THEN strip(SubSeq(codes, 1, Len(codes) - 1))
  ELSE codes

RECURSIVE get_unaccessed(_, _, _)
get_unaccessed(tree, heap, w) ==
  LET self == heap[w]
      elem == Raw(tree, self.elem)
      actual_children == {elem.kids[i].tag : i \in 1..Len(elem.kids)}
      tags == actual_children \ self._accessed_tags
      attrs == {<<"@">> \o attr : attr \in (elem.attrib \ self._accessed_attrs)}
      leaf == IF /\ ~self._accessed_text
                 /\ elem.text # None
                 /\ elem.text.v # <<>>
                 /\ strip(elem.text.v) # <<>>
                 /\ Len(elem.kids) = 0
              THEN {<<"#", "t", "e", "x", "t">>} ELSE {}
      nested == UNION {UNION {{tag \o <<"/">> \o path :
                                 path \in get_unaccessed(tree, heap, self._children[tag][k])} :
                              k \in 1..Len(self._children[tag])} :
                       tag \in DOMAIN self._children}
  IN tags \cup attrs \cup leaf \cup nested

\* the children of the element: bare, or with an attribute and a text
Kid(tag, full) ==
  [tag |-> tag, attrib |-> IF full THEN Attrs ELSE {},
   text |-> IF full THEN StrV(<<116>>) ELSE None]

\* the elements wrapped: a leaf with no text, a blank text or a text, and
\* elements with children, with or without an attribute and a text
TrackDocs ==
  {[attrib |-> Attrs, text |-> txt, kids |-> <<>>] :
     txt \in {None, StrV(<<32>>), StrV(<<116>>)}}
  \cup {[attrib |-> attrib, text |-> txt, kids |-> kids] :
          attrib \in {{}, Attrs},
          txt \in {None, StrV(<<116>>)},
          kids \in UNION {[1..n -> {Kid(tag, full) : tag \in Tags, full \in BOOLEAN}] :
                           n \in 1..MaxKids}}

\* TrackingElement(elem)
TrackStart ==
  /\ trElem \in TrackDocs
  /\ trHeap = <<TrackingElement(0)>>
  /\ trIter = 0
  /\ trOps = 0
  /\ trLast = [op |-> "new", w |-> 1, arg |-> <<>>, value |-> <<1>>]
  /\ trPc = "live"

\* a call of a method: the heap and the record of the call
Called(op, w, arg, call) ==
  /\ trPc = "live"
  /\ trOps < MaxOps
  /\ trOps' = trOps + 1
  /\ trHeap' = call.heap
  /\ trLast' = [op |-> op, w |-> w, arg |-> arg, value |-> call.value]
  /\ UNCHANGED <<trElem, trPc>>

TrFind ==
  /\ \E tag \in Tags : Called("find", 1, tag, find(trElem, trHeap, 1, tag))
  /\ UNCHANGED trIter

TrFindall ==
  /\ \E tag \in Tags : Called("findall", 1, tag, findall(trElem, trHeap, 1, tag))
  /\ UNCHANGED trIter

TrFindtext ==
  /\ \E tag \in Tags : Called("findtext", 1, tag, findtext(trElem, trHeap, 1, tag))
  /\ UNCHANGED trIter

TrGet ==
  /\ \E w \in 1..Len(trHeap), attr \in Attrs :
       Called("get", w, attr, get(trElem, trHeap, w, attr))
  /\ UNCHANGED trIter

TrText ==
  /\ \E w \in 1..Len(trHeap) : Called("text", w, <<>>, text(trElem, trHeap, w))
  /\ UNCHANGED trIter

\* next() on the generator of a for loop over the wrapper: of a new loop
\* (the generator of an earlier loop is dropped where it is), or of the loop
\* under way; past the last child the generator is finished
TrNext ==
  /\ \E pos \in {1} \cup (IF trIter = 0 THEN {} ELSE {trIter}) :
       IF pos > Len(trElem.kids)
       THEN /\ Called("next", 1, <<>>, [heap |-> trHeap, value |-> <<>>])
            /\ trIter' = 0
       ELSE /\ Called("next", 1, <<>>, __iter__(trElem, trHeap, 1, pos))
            /\ trIter' = pos + 1

TrackInit ==
  FilterIdle /\ FeIdle /\ summary = None /\ DriverIdle /\ OthersIdle("track") /\ TrackStart

TrackNext ==
  \/ TrFind /\ UNCHANGED exceptTrack
  \/ TrFindall /\ UNCHANGED exceptTrack
  \/ TrFindtext /\ UNCHANGED exceptTrack
  \/ TrGet /\ UNCHANGED exceptTrack
  \/ TrText /\ UNCHANGED exceptTrack
  \/ TrNext /\ UNCHANGED exceptTrack

SpecTrack == TrackInit /\ [][TrackNext]_vars

(***************************************************************************)
(* SpecFormat: _parse_formats called on a <formats> element that holds one *)
(* <format>.  The attributes are None (absent) or a str.                   *)
(***************************************************************************)
ValueError == [t |-> "raised", cls |-> "ValueError"]

RECURSIVE DecimalOf(_)
DecimalOf(codes) ==
  IF codes = <<>> THEN 0
  ELSE 10 * DecimalOf(SubSeq(codes, 1, Len(codes) - 1)) + (codes[Len(codes)] - 48)

\* int(x) of a str of digits and letters: the number, or ValueError
int(x) ==
  IF x.v # <<>> /\ \A i \in 1..Len(x.v) : x.v[i] \in 48..57
  THEN IntV(DecimalOf(x.v))
  ELSE ValueError

\* the truth value of an attribute: None and "" are false
Truthy(x) == x # None /\ x.v # <<>>

Format(name, quantity, string, descriptions) ==
  RecV([name |-> name, quantity |-> quantity, text |-> string,
        descriptions |-> ListV(descriptions)])

RECURSIVE FormatsFrom(_, _)
\* the loop over parent.findall("format"), `formats` being the list so far
FormatsFrom(elems, formats) ==
  IF elems = <<>> THEN ListV(formats)
  ELSE LET format_elem == Head(elems)
           name == format_elem.name
           quantity_text == format_elem.qty
       IN IF Truthy(name) /\ Truthy(quantity_text)
          THEN IF int(quantity_text) = ValueError THEN ValueError
               ELSE FormatsFrom(Tail(elems),
                                Append(formats, Format(name, int(quantity_text),
                                                       format_elem.text, <<>>)))
          ELSE FormatsFrom(Tail(elems), formats)

_parse_formats(parent) ==
  IF parent = None THEN ListV(<<>>) ELSE FormatsFrom(parent.formats, <<>>)

\* the values of a qty attribute: absent, or up to MaxQty of the characters
\* 0, 2 and x ("", "2", "02", "20", "x", "2x", ...)
Quantities ==
  {None} \cup {StrV(codes) : codes \in UNION {[1..n -> {48, 50, 120}] : n \in 0..MaxQty}}

FormatParents ==
  {None}
  \cup {[t |-> "element", formats |-> <<[name |-> name, qty |-> qty, text |-> string]>>] :
          name \in {None, StrV(<<86>>)}, qty \in Quantities, string \in {None, StrV(<<>>)}}

FormatStart ==
  /\ fmParent \in FormatParents
  /\ fmResult = None
  /\ fmPc = "new"

FormatParse ==
  /\ fmPc = "new"
  /\ fmResult' = _parse_formats(fmParent)
  /\ fmPc' = "done"
  /\ UNCHANGED fmParent

FormatInit ==
  FilterIdle /\ FeIdle /\ summary = None /\ DriverIdle /\ OthersIdle("format") /\ FormatStart

FormatNext == FormatParse /\ UNCHANGED exceptFormat

SpecFormat == FormatInit /\ [][FormatNext]_vars

(***************************************************************************)
(* SpecSample: one call of sample(input_path, output_path, count) on a     *)
(* dump of labels or of artists, whose entries may hold elements of the    *)
(* same tag (the sublabels of a label).                                    *)
(***************************************************************************)
ENTITY_TAGS == [artists |-> "artist", labels |-> "label"]

\* get_entity_tag: the tag of the entity in the file name
get_entity_tag(entity) == ENTITY_TAGS[entity]

\* the dumps: <labels> holding labels, <artists> holding artists
SampleDocs(entity) ==
  DocSet({entity}, {get_entity_tag(entity)}, MaxEntries, MaxNested)

\* lines 75-84: the readers are opened, the declaration and the opening tag
\* of the root are written
SampleStart ==
  /\ smEntity \in DOMAIN ENTITY_TAGS
  /\ smDoc \in SampleDocs(smEntity)
  /\ smCount \in 0..MaxLimit
  /\ smPos = 1
  /\ smWritten = 0
  /\ smOut = <<[kind |-> "declaration"], [kind |-> "open", tag |-> smEntity]>>
  /\ smCleared = {}
  /\ smDeleted = {}
  /\ smReturn = None
  /\ smPc = "loop"

\* lines 86-101: one iteration of the loop over the end events
SampleElement ==
  /\ smPc = "loop"
  /\ smPos <= Len(Events(smDoc, get_entity_tag(smEntity)))
  /\ LET elem == Events(smDoc, get_entity_tag(smEntity))[smPos]
     IN /\ smOut' = Append(smOut, [kind |-> "element", elem |-> elem,
                                   cleared |-> smCleared \cap Below(smDoc, elem),
                                   deleted |-> smDeleted \cap Below(smDoc, elem)])
        /\ smCleared' = smCleared \cup {elem}
        /\ smDeleted' = smDeleted \cup PreviousSiblings(smDoc, elem)
  /\ smWritten' = smWritten + 1
  /\ smPos' = smPos + 1
  /\ smPc' = IF smWritten' >= smCount THEN "close" ELSE "loop"
  /\ UNCHANGED <<smEntity, smDoc, smCount, smReturn>>

\* the stream has no further event: the loop ends
SampleExhaust ==
  /\ smPc = "loop"
  /\ smPos > Len(Events(smDoc, get_entity_tag(smEntity)))
  /\ smPc' = "close"
  /\ UNCHANGED <<smEntity, smDoc, smCount, smPos, smWritten, smOut, smCleared, smDeleted,
                 smReturn>>

\* lines 103-105: the closing tag is written, the files are closed and
\* written is returned
SampleReturn ==
  /\ smPc = "close"
  /\ smOut' = Append(smOut, [kind |-> "close", tag |-> smEntity])
  /\ smReturn' = IntV(smWritten)
  /\ smPc' = "done"
  /\ UNCHANGED <<smEntity, smDoc, smCount, smPos, smWritten, smCleared, smDeleted>>

SampleInit ==
  FilterIdle /\ FeIdle /\ summary = None /\ DriverIdle /\ OthersIdle("sample") /\ SampleStart

SampleNext ==
  \/ SampleElement /\ UNCHANGED exceptSample
  \/ SampleExhaust /\ UNCHANGED exceptSample
  \/ SampleReturn /\ UNCHANGED exceptSample

SpecSample == SampleInit /\ [][SampleNext]_vars

(***************************************************************************)
(* Properties.                                                             *)
(***************************************************************************)

\* C1: a run with a summary collector that completes without raising returns
\* a summary with records_read = records_dropped + records_written.
C1_ReadIsDroppedPlusWritten ==
  (xPc = "finished" /\ summary # None) =>
    result(summary).records_read =
      result(summary).records_dropped + result(summary).records_written

C1_Witness ==
  /\ xPc = "finished"
  /\ summary # None
  /\ summary._records_dropped >= 1
  /\ summary._records_modified >= 1
  /\ summary._records_written >= 1

\* the events of the stream that pass the nesting filter of find_elements
Eligible(doc, tag) ==
  {i \in 1..Len(Events(doc, tag)) :
     ~(tag \in _ENTITIES_WITH_NESTING /\ Rejected(doc, Events(doc, tag)[i]))}

Min(a, b) == IF a <= b THEN a ELSE b

\* C2: a finished find_elements(stream, tag, limit=N) has yielded exactly
\* min(N, M) elements, M the number of emit-eligible elements of the tag, and
\* exactly M when limit is None.
C2_YieldsMinOfLimitAndEligible ==
  fePc = "done" =>
    Len(feOut) = (IF feLimit = None THEN Cardinality(Eligible(feDoc, feTag))
                  ELSE Min(feLimit.v, Cardinality(Eligible(feDoc, feTag))))

\* C3: for tag "label" every yielded element is a child of the root <labels>
\* container and the labels nested in it are not cleared when it is yielded;
\* for any other tag the elements are yielded as the stream delivers them,
\* without a parent check.
C3_OnlyRootLevelLabels ==
  /\ feTag = "label" =>
       \A i \in 1..Len(feOut) :
         /\ feOut[i].parent = "labels"
         /\ feOut[i].elem[2] = 0
         /\ feDoc.root = "labels"
         /\ feOut[i].cleared = {}
  /\ feTag \notin {"label", ""} =>
       \A i \in 1..Len(feOut) : feOut[i].elem = Events(feDoc, feTag)[i]

C3_Witness ==
  /\ feTag = "label"
  /\ fePc = "done"
  /\ \E i \in 1..Len(feOut) :
       /\ feOut[i].elem[1] >= 1
       /\ feDoc.entries[feOut[i].elem[1]].nested >= 1

\* what the filter chain keeps of a sequence of produced records
RECURSIVE KeptOf(_)
KeptOf(produced) ==
  IF produced = <<>> THEN <<>>
  ELSE LET p == Head(produced)
           r == ApplyFilter(cfg.filters, p.record)
       IN (IF r.drop THEN <<>> ELSE <<[elem |-> p.elem, idx |-> p.idx, record |-> r.record]>>)
          \o KeptOf(Tail(produced))

\* the records of the current element that the loop has not reached yet
Pending == IF xPc = "records" THEN Len(xElem.records) - xIdx + 1 ELSE 0

\* C4: within one file, writer.write has received exactly the records the
\* parser produced (as the filter chain returns them), in source order, each
\* kept record once and no dropped record.
C4_WrittenInSourceOrder ==
  xPc # "idle" =>
    xWritten = KeptOf(SubSeq(xProduced, 1, Len(xProduced) - Pending))

C4_Witness ==
  /\ xPc = "finished"
  /\ Len(xProduced) = 2
  /\ Len(xWritten) = 1
  /\ xWritten[1].elem = Len(feOut)
  /\ xWritten[1].record # xProduced[2].record

\* the processing of the i-th yielded element of the file ended without raising
Completed(i) ==
  \/ i < Len(feOut)
  \/ i = Len(feOut) /\ xPc \in {"resume", "next", "files", "finished"}

CallsFor(i) == {k \in 1..Len(xProgress) : xProgress[k].elem = i}

\* C5: the supplied progress callback is invoked exactly once for every
\* element whose processing does not raise (parse-error elements included),
\* and only after every writer.write call for that element.
C5_ProgressOncePerElement ==
  xPc # "idle" =>
    /\ \A i \in 1..Len(feOut) :
         (Completed(i) /\ (bytes_callback(tracker) \/ element_callback(tracker)))
           => Cardinality(CallsFor(i)) = 1
    /\ \A k \in 1..Len(xProgress) : \A w \in 1..Len(xWritten) :
         xWritten[w].elem = xProgress[k].elem => w <= xProgress[k].writes

C5_Witness ==
  /\ xPc = "finished"
  /\ Len(xProgress) = 2
  /\ \E i \in 1..Len(feOut) : xParsed[i].id = None
  /\ \E w \in 1..Len(xWritten) : xProgress[xWritten[w].elem].writes = Len(xWritten)

\* C6: the reader handed to execute has bytes_read, so with progress shown
\* and no limit every element is followed by one byte-based callback and the
\* run does not fail on the reader; with a limit only the element-based
\* callback is invoked.
C6_ByteProgressWorks ==
  xPc # "idle" =>
    /\ xErr # "AttributeError"
    /\ \A i \in 1..Len(feOut) :
         (Completed(i) /\ cfg.show_progress /\ cfg.limit = None)
           => \E k \in CallsFor(i) : xProgress[k].kind = "bytes"
    /\ \A k \in 1..Len(xProgress) :
         xProgress[k].kind = (IF cfg.limit = None THEN "bytes" ELSE "element")

\* the elements of the file that have been parsed
NParsed == IF xPc = "parse" THEN Len(feOut) - 1 ELSE Len(feOut)

\* the file the x-histories are about: execute has returned once xPc is "files"
LogFile == IF xPc \in {"files", "finished"} THEN xFile - 1 ELSE xFile

WarningsAt(kind, at) ==
  IF summary = None THEN {}
  ELSE {k \in 1..Len(summary._warnings) :
          summary._warnings[k].kind = kind /\ summary._warnings[k].at = at}

\* C7: a parse error with fail_on_unhandled false records one warning for
\* the element, reads and writes no record of it, and execute goes on; with
\* fail_on_unhandled true the error propagates and no later element is
\* processed.
C7_ParseErrorRecordedAndSkipped ==
  xPc # "idle" =>
    \A i \in 1..NParsed :
      xParsed[i].id = None =>
        IF cfg.fail_on_unhandled
        THEN i = Len(feOut) /\ xPc = "raised" /\ xErr = "ValueError"
        ELSE /\ summary # None => Cardinality(WarningsAt("Parse error", <<LogFile, i>>)) = 1
             /\ \A w \in 1..Len(xWritten) : xWritten[w].elem # i
             /\ \A w \in 1..Len(xProduced) : xProduced[w].elem # i
             /\ i = Len(feOut) => xPc # "raised"

\* the strict check of the i-th element has been made
Checked(i) == i < NParsed \/ (i = NParsed /\ xPc # "records")

\* C8: after an element is parsed, strict mode with a non-empty set of
\* unaccessed paths records exactly one "Unhandled in <tag> id=<id>: <sorted
\* paths>" warning (fail_on_unhandled false) or raises UnhandledElementError
\* (true); an empty set, or strict off, records no such warning.
C8_StrictUnhandled ==
  xPc # "idle" =>
    \A i \in 1..NParsed :
      (xParsed[i].id # None /\ Checked(i)) =>
        LET e == xParsed[i]
            ws == WarningsAt("Unhandled", <<LogFile, i>>)
        IN IF cfg.strict /\ e.unaccessed # {}
           THEN IF cfg.fail_on_unhandled
                THEN /\ i = Len(feOut)
                     /\ xPc = "raised"
                     /\ xErr = "UnhandledElementError"
                     /\ ws = {}
                ELSE summary # None =>
                       /\ Cardinality(ws) = 1
                       /\ \A k \in ws :
                            summary._warnings[k] =
                              [kind |-> "Unhandled", tag |-> "label", id |-> PyStr(e.id),
                               paths |-> Sorted(e.unaccessed), at |-> <<LogFile, i>>]
                       /\ summary._records_unhandled = Len(summary._warnings)
           ELSE ws = {}

C8_Witness ==
  /\ xPc = "resume"
  /\ summary # None
  /\ cfg.strict
  /\ WarningsAt("Unhandled", <<xFile, NParsed>>) # {}
  /\ xElem.unaccessed = PathNames

\* C9: in every state of a SummaryCollector records_unhandled is the length
\* of the warnings list, and no call decreases a counter.
C9_UnhandledIsWarningCount ==
  /\ [](summary # None => summary._records_unhandled = Len(summary._warnings))
  /\ [][summary # None =>
          /\ summary'._records_read >= summary._records_read
          /\ summary'._records_dropped >= summary._records_dropped
          /\ summary'._records_modified >= summary._records_modified
          /\ summary'._records_written >= summary._records_written
          /\ summary'._records_unhandled >= summary._records_unhandled
          /\ Len(summary'._warnings) >= Len(summary._warnings)]_vars

C9_Witness ==
  /\ fePc = "idle"
  /\ summary # None
  /\ summary._records_unhandled = MaxCalls
  /\ summary._records_read >= 1

\* the truth of the i-th comparison of a source expression on a record
AtomTruth(src, record, i) ==
  IF src.atoms[i].field = <<"id">> THEN record.v.id = src.atoms[i].value
  ELSE record.v.name # None

\* one of the and-runs between lo and hi, delimited by "or", is all true
RunsTruth(ops, val, lo, hi) ==
  \E i \in lo..hi : \E j \in i..hi :
    /\ i = lo \/ ops[i - 1] = "or"
    /\ j = hi \/ ops[j] = "or"
    /\ \A k \in i..(j - 1) : ops[k] = "and"
    /\ \A k \in i..j : val[k]

\* the truth of a source expression: "and" binds tighter than "or", and a
\* parenthesised range is evaluated first
SrcTruth(src, record) ==
  LET n == Len(src.atoms)
      val == [i \in 1..n |-> AtomTruth(src, record, i)]
  IN IF src.paren = <<0, 0>> THEN RunsTruth(src.ops, val, 1, n)
     ELSE LET lo == src.paren[1]
              hi == src.paren[2]
              inner == RunsTruth(src.ops, val, lo, hi)
              m == n - (hi - lo)
              val2 == [i \in 1..m |-> IF i < lo THEN val[i]
                                      ELSE IF i = lo THEN inner ELSE val[i + (hi - lo)]]
              ops2 == [i \in 1..(m - 1) |-> IF i < lo THEN src.ops[i] ELSE src.ops[i + (hi - lo)]]
          IN RunsTruth(ops2, val2, 1, m)

\* C10: an ExpressionFilter returns None exactly when its expression is true
\* of the record ("and" binding tighter than "or", and = all, or = any), and
\* otherwise returns the very record it received.
C10_DropsIffExpressionTrue ==
  /\ fPc # "error"
  /\ fPc = "called" =>
       /\ fResult.drop <=> SrcTruth(fSrc, fRecord)
       /\ ~fResult.drop => (fResult.record = fRecord /\ ~fResult.fresh)

C10_Witness ==
  /\ fPc = "called"
  /\ fSrc.paren = <<0, 0>>
  /\ Len(fSrc.atoms) = 3
  /\ fSrc.ops = <<"or", "and">>
  /\ AtomTruth(fSrc, fRecord, 1)
  /\ ~AtomTruth(fSrc, fRecord, 3)
  /\ fResult.drop

\* every segment of the path names a field of the record it is looked up in
RECURSIVE AllFields(_, _)
AllFields(value, parts) ==
  IF parts = <<>> THEN TRUE
  ELSE /\ IsRec(value)
       /\ Head(parts) \in DOMAIN value.v
       /\ AllFields(value.v[Head(parts)], Tail(parts))

\* C11: `x == null` is true only for an absent x, `x != null` only for a
\* present x, an ordering comparison of a null with a non-null is false, and
\* a dot path with a missing segment resolves to null.
C11_NullComparisons ==
  /\ cPc = "compared" =>
       /\ (cOp = "==" /\ IsNone(cTarget) /\ cResult) => IsNone(cValue)
       /\ (cOp = "!=" /\ IsNone(cTarget) /\ cResult) => ~IsNone(cValue)
       /\ (cOp \in {">", ">=", "<", "<="} /\ IsNone(cValue) # IsNone(cTarget)) => ~cResult
  /\ (cPc \in {"resolved", "compared"} /\ ~AllFields(cRecord, cField)) => IsNone(cValue)

\* C12: the chain calls its filters in declaration order, each on the record
\* the previous one returned; after a filter returns None the chain returns
\* None and calls no further filter.
C12_ChainInOrderStopsOnDrop ==
  chPc # "idle" =>
    /\ \A k \in 1..Len(chLog) :
         /\ chLog[k].idx = k
         /\ chLog[k].arg = (IF k = 1 THEN chRecord ELSE chLog[k - 1].res.record)
         /\ k < Len(chLog) => ~chLog[k].res.drop
    /\ (chPc \in {"returned", "regrouped"} /\ ~IsRaised(chResult)) =>
         IF \E k \in 1..Len(chLog) : chLog[k].res.drop
         THEN chResult = Dropped /\ chLog[Len(chLog)].res.drop
         ELSE /\ Len(chLog) = Len(chFilters)
              /\ ~chResult.drop
              /\ chResult.record = (IF chLog = <<>> THEN chRecord
                                    ELSE chLog[Len(chLog)].res.record)

C12_Witness ==
  /\ chPc = "returned"
  /\ Len(chFilters) = 3
  /\ Len(chLog) = 2
  /\ chLog[1].res.fresh
  /\ chLog[2].res.drop
  /\ ~FilterCall(chFilters[2], chRecord).drop

\* two calls end the same way: both drop, both raise the same error, or both
\* return equal records
SameOutcome(r1, r2) ==
  /\ r1.drop = r2.drop
  /\ IsRaised(r1) = IsRaised(r2)
  /\ IsRaised(r1) => r1.error = r2.error
  /\ (~r1.drop /\ ~IsRaised(r1)) => r1.record = r2.record

\* C13: FilterChain([a, FilterChain([b, c])])(r) ends the same way as
\* FilterChain([a, b, c])(r): the same drop decision and an equal record.
C13_ChainAssociative ==
  chPc = "regrouped" => SameOutcome(chNested, chResult)

C13_Witness ==
  /\ chPc = "regrouped"
  /\ chFilters[1].kind = "unset"
  /\ chFilters[2].kind = "expr"
  /\ chFilters[3].kind = "unset"
  /\ ~chResult.drop
  /\ ~IsRaised(chResult)
  /\ chResult.record # chRecord

\* the record UnsetFields(F) is said to return for r: r with every field of F
\* it has set to null
Unset(record, fields) ==
  RecV([n \in DOMAIN record.v |-> IF n \in fields THEN None ELSE record.v[n]])

\* C14: UnsetFields(F) never drops a record and returns the input with the
\* fields of F it has set to null; fields the record lacks are ignored, an
\* empty F returns the input record itself, and a second application changes
\* nothing.
C14_UnsetFieldsNullsFields ==
  \A k \in 1..Len(chLog) :
    chFilters[k].kind = "unset" =>
      LET f == chFilters[k]
          arg == chLog[k].arg
          res == chLog[k].res
      IN /\ ~res.drop
         /\ ~IsRaised(res)
         /\ res.record = Unset(arg, f.fields)
         /\ f.fields = {} => ~res.fresh
         /\ ~IsRaised(FilterCall(f, res.record))
         /\ FilterCall(f, res.record).record = res.record

\* the chain handed back a record that is not the record it was given
ReturnsDifferentRecord(filters, record) ==
  LET filtered == ApplyFilter(filters, record)
  IN ~filtered.drop /\ filtered.fresh

\* one iteration of the driver's loop over the records of an element
RecordStep == xPc = "records" /\ xIdx' = xIdx + 1

\* C15: records_modified advances by one in the iteration of a record for
\* which the chain returns a non-null record different from the one it got,
\* and in no other step; a completed run ends with
\* records_modified <= records_written.
C15_ModifiedCountsDifferentRecords ==
  /\ [][(summary # None /\ summary' # None) =>
          summary'._records_modified = summary._records_modified +
            (IF RecordStep /\ ReturnsDifferentRecord(cfg.filters, xElem.records[xIdx])
             THEN 1 ELSE 0)]_vars
  /\ []((xPc = "finished" /\ summary # None) =>
          result(summary).records_modified <= result(summary).records_written)

C15_Witness ==
  /\ xPc = "finished"
  /\ summary # None
  /\ Len(xProduced) = 2
  /\ result(summary).records_dropped = 1
  /\ result(summary).records_modified = 1
  /\ result(summary).records_written = 1
  /\ xWritten[1].record.v.name = None

RECURSIVE Joined(_)
\* the texts of the records, each but the first preceded by "," newline
Joined(records) ==
  IF records = <<>> THEN <<>>
  ELSE LET n == Len(records)
       IN Joined(SubSeq(records, 1, n - 1))
            \o (IF n = 1 THEN <<>> ELSE <<Text(",\n")>>)
            \o <<dumps(asdict(records[n]))>>

\* C16: after the scope of a JsonWriter is left, normally or by exception,
\* the file holds "[" newline, the objects of the n writes made in write
\* order separated by "," newline, then newline "]" newline.
C16_JsonArrayWellFormed ==
  jwPc \in {"closed", "failed"} =>
    jwOut = <<Text("[\n")>> \o Joined(jwDone) \o <<Text("\n]\n")>>

\* the positions of the log at which writer w is opened / closed
OpensOf(w) == {k \in SinkOpens : skLog[k].w = w}

ClosesOf(w) == {k \in 1..Len(skLog) : skLog[k].ev = "close" /\ skLog[k].w = w}

\* the positions at which a sink is opened for the j-th valid path
OpensFor(j) == {k \in SinkOpens : skLog[k].path = valid_paths(skPaths)[j]}

SinkWrites == {k \in 1..Len(skLog) : skLog[k].ev = "write"}

\* the j-th valid path has got its sink: its with statement was entered
SinkReached(j) ==
  \/ j < skFile
  \/ j = skFile /\ skPc \in {"execute", "raising"}
  \/ j = skFile /\ skPc = "failed" /\ skErr # "OSError"

\* C17: an aggregating sink is opened once and gets the records of all
\* files; a non-aggregating sink is opened once per valid file and gets that
\* file's records only; every opened sink is closed on every exit path, and
\* a sink is closed before the next one is opened.
C17_SinkOpenedAndClosed ==
  skPc # "idle" =>
    /\ SinkAggregates =>
         /\ Cardinality(SinkOpens) <= 1
         /\ skPc \in {"loop", "execute", "raising", "finished"} =>
              Cardinality(SinkOpens) = 1
         /\ \A k \in SinkWrites : skLog[k].w = 1
    /\ ~SinkAggregates =>
         /\ \A j \in 1..Len(valid_paths(skPaths)) :
              Cardinality(OpensFor(j)) = (IF SinkReached(j) THEN 1 ELSE 0)
         /\ Cardinality(SinkOpens) <= Len(valid_paths(skPaths))
         /\ \A k \in SinkWrites :
              \E o \in OpensOf(skLog[k].w) : skLog[o].path = skLog[k].path
    /\ \A k \in SinkWrites :
         /\ \E o \in OpensOf(skLog[k].w) : o < k
         /\ \A c \in ClosesOf(skLog[k].w) : k < c
    /\ \A o \in SinkOpens :
         /\ Cardinality(ClosesOf(skLog[o].w)) <= 1
         /\ \A c \in ClosesOf(skLog[o].w) : o < c
         /\ skPc \in {"finished", "failed"} => ClosesOf(skLog[o].w) # {}
         /\ \A o2 \in SinkOpens :
              o < o2 => \E c \in ClosesOf(skLog[o].w) : c < o2

\* two files converted to JSON, the second execute raising after a write
C17_Witness ==
  /\ skPc = "failed"
  /\ skFormat = "json"
  /\ skPaths = <<TRUE, TRUE>>
  /\ Cardinality(SinkOpens) = 2
  /\ Cardinality(SinkWrites) = 3
  /\ skLog[Len(skLog)].ev = "close"

RECURSIVE InsertedRows(_, _)
\* the rows the statements executed so far have inserted into a table, in
\* the order of their insertion
InsertedRows(db, table) ==
  IF db = <<>> THEN <<>>
  ELSE LET n == Len(db)
       IN InsertedRows(SubSeq(db, 1, n - 1), table)
            \o (IF db[n].ev = "insert" /\ db[n].table = table THEN db[n].rows ELSE <<>>)

\* the rows of a history of appends that went to the buffer of a table
RowsTo(appended, table) ==
  LET own == SelectSeq(appended, LAMBDA a : a.table = table)
  IN [i \in 1..Len(own) |-> own[i].row]

InsertEvents(table) ==
  {k \in 1..Len(sqSelf.db) : sqSelf.db[k].ev = "insert" /\ sqSelf.db[k].table = table}

\* C18: after a clean close of a relational sink of batch size B >= 1, the
\* rows inserted into each table are the rows appended to its buffer, each
\* once and in append order, and every buffer is empty.
C18_RowsInsertedOnceInOrder ==
  sqPc = "closed" =>
    \A table \in DOMAIN sqSelf._buffers \cup
                  {sqSelf.appended[i].table : i \in 1..Len(sqSelf.appended)} :
      /\ InsertedRows(sqSelf.db, table) = RowsTo(sqSelf.appended, table)
      /\ sqSelf._buffers[table] = <<>>

\* three labels with batch size 2: one flush at the boundary, the third row
\* flushed at close
C18_Witness ==
  /\ sqPc = "closed"
  /\ sqCfg.batch_size = 2
  /\ sqCfg.commit_interval = 0
  /\ Len(RowsTo(sqSelf.appended, T_label)) = 3
  /\ Cardinality(InsertEvents(T_label)) = 2

\* the list fields of the record that the table statement of the package
\* does not make a column of the main table
ListFields(record) ==
  {f \in DOMAIN record.v :
     /\ __annotations__(record.t, record.cls)[f].t = "list"
     /\ _load_sql(sqCfg.resources, "tables", lower(__name__(record.cls))) # None =>
          f \notin CannedColumns(sqCfg.resources, lower(__name__(record.cls)))}

\* the junction table of a list field of the model's records
JunctionTableOf(record, f) ==
  lower(__name__(record.cls)) \o <<"_">> \o (IF f = F_aliases THEN <<"a", "l", "i", "a", "s">> ELSE <<"u", "r", "l">>)

\* C19: one write of a record of type R appends exactly one row to the
\* buffer of R's main table and, for each junction field F holding k
\* elements, exactly k rows to the buffer of <r>_<singular(F)>, each with the
\* record's id as first column; an empty or null F appends none.
C19_WriteAppendsMainAndJunctionRows ==
  (sqPc # "idle" /\ sqLast # None) =>
    LET record == sqLast.record
        new == SubSeq(sqSelf.appended, sqLast.before + 1, Len(sqSelf.appended))
    IN /\ Len(RowsTo(new, lower(__name__(record.cls)))) = 1
       /\ \A f \in ListFields(record) :
            LET rows == RowsTo(new, JunctionTableOf(record, f))
            IN /\ Len(rows) = (IF record.v[f] = None THEN 0 ELSE Len(record.v[f].v))
               /\ \A i \in 1..Len(rows) : rows[i][1] = record.v[F_id]

IndexEvents == {k \in 1..Len(sqSelf.db) : sqSelf.db[k].ev = "index"}

\* C20: index DDL is executed only at close and only on an exit without
\* exception, after every buffer has been flushed (no insertion follows an
\* index statement), at most once per index resource file; on exception exit
\* there is none.
C20_IndicesOnlyOnCleanClose ==
  sqPc # "idle" =>
    /\ IndexEvents # {} =>
         /\ sqPc \in {"closed", "broken"}
         /\ sqExc = ""
         /\ \A table \in DOMAIN sqSelf._buffers : sqSelf._buffers[table] = <<>>
    /\ \A k \in IndexEvents :
         \A j \in 1..Len(sqSelf.db) : sqSelf.db[j].ev = "insert" => j < k
    /\ \A k1, k2 \in IndexEvents :
         sqSelf.db[k1].file = sqSelf.db[k2].file => k1 = k2
    /\ sqPc = "failed" => IndexEvents = {}

\* artist, its two junction tables and label: four tables, two index files
C20_Witness ==
  /\ sqPc = "closed"
  /\ Cardinality(sqSelf._tables) = 4
  /\ Cardinality(IndexEvents) = 2
  /\ \E k \in 1..Len(sqSelf.db) : sqSelf.db[k].ev = "insert"

\* C21: the database connection of a relational writer is closed on every
\* exit path from the with statement, also when the final flush, the index
\* creation, ANALYZE or the commit raises during close.
C21_ConnectionClosedOnEveryExit ==
  sqPc \in {"closed", "failed", "broken"} => sqConn = "closed"

CommitEvents(db) == {k \in 1..Len(db) : db[k].ev = "commit"}

\* a step in which a call of write returns
WriteReturned == sqCalls' = sqCalls + 1 /\ sqLast'.error = ""

\* C22: with commit_interval = C >= 1, the write at which the count since
\* the last commit reaches C flushes all buffers, commits and resets the
\* count to 0 (every buffer is empty right after it), any other write adds
\* one to the count and commits nothing; the count is in 0..C-1 after every
\* write; with commit_interval unset nothing is committed before close.
C22_PeriodicCommit ==
  /\ [][(sqCfg.commit_interval >= 1 /\ WriteReturned) =>
         IF sqSelf._records_since_commit + 1 = sqCfg.commit_interval
         THEN /\ sqSelf'._records_since_commit = 0
              /\ Cardinality(CommitEvents(sqSelf'.db)) =
                   Cardinality(CommitEvents(sqSelf.db)) + 1
              /\ sqSelf'.db[Len(sqSelf'.db)].ev = "commit"
              /\ \A table \in DOMAIN sqSelf'._buffers : sqSelf'._buffers[table] = <<>>
         ELSE /\ sqSelf'._records_since_commit = sqSelf._records_since_commit + 1
              /\ CommitEvents(sqSelf'.db) = CommitEvents(sqSelf.db)]_vars
  /\ []((sqPc # "idle" /\ sqCfg.commit_interval >= 1) =>
          sqSelf._records_since_commit \in 0..(sqCfg.commit_interval - 1))
  /\ []((sqPc \in {"new", "body", "raising"} /\ sqCfg.commit_interval = 0) =>
          CommitEvents(sqSelf.db) = {})

\* commit_interval 2 and batch size 2, three writes: one periodic commit at
\* the second write, the third write counted again
C22_Witness ==
  /\ sqPc = "body"
  /\ sqCfg.commit_interval = 2
  /\ sqCfg.batch_size = 2
  /\ sqCalls = 3
  /\ sqSelf._records_since_commit = 1
  /\ Cardinality(CommitEvents(sqSelf.db)) = 1
  /\ \E table \in DOMAIN sqSelf._buffers : sqSelf._buffers[table] # <<>>

\* the statements of a kind executed on a table
TableEvents(db, ev, table) ==
  {k \in 1..Len(db) : db[k].ev = ev /\ db[k].table = table}

\* the tables named by a DROP TABLE IF EXISTS statement
DroppedTables(db) == {db[k].table : k \in {n \in 1..Len(db) : db[n].ev = "drop"}}

C29_ExceptionExitPersistsWrites ==
  (sqPc = "failed" /\ sqExc = "UnhandledElementError") =>
    LET db == sqSelf.db
    IN /\ \A table \in sqSelf._tables :
            /\ InsertedRows(db, table) = RowsTo(sqSelf.appended, table)
            /\ sqSelf._buffers[table] = <<>>
       /\ Len(db) >= 2
       /\ db[Len(db) - 1].ev = "commit"
       /\ db[Len(db)].ev = "close"
       /\ \A k \in 1..Len(db) : db[k].ev \notin {"rollback", "error"}

\* an artist with aliases written below the batch size, then the exception:
\* the rows of the main table and of the junction table are inserted by close
C29_Witness ==
  /\ sqPc = "failed"
  /\ sqExc = "UnhandledElementError"
  /\ sqCalls = 1
  /\ sqCfg.commit_interval = 0
  /\ Len(InsertedRows(sqSelf.db, T_artist)) = 1
  /\ Len(InsertedRows(sqSelf.db, T_artist \o <<"_", "a", "l", "i", "a", "s">>)) = MaxElems
  /\ sqSelf.db[Len(sqSelf.db) - 2].ev = "insert"

\* the entries of a history that belong to the element being processed
OfElement(history) == SelectSeq(history, LAMBDA h : h.elem = Len(feOut))

\* C28: when execute raises UnhandledElementError for an element (strict and
\* fail_on_unhandled), every record the parser produced for that element has
\* been read, and every one the filter kept has been passed to writer.write
\* and counted as written, before the raise.
C28_RecordsWrittenBeforeStrictRaise ==
  xErr = "UnhandledElementError" =>
    /\ cfg.strict /\ cfg.fail_on_unhandled
    /\ Len(OfElement(xProduced)) = Len(xElem.records)
    /\ OfElement(xWritten) = KeptOf(OfElement(xProduced))
    /\ summary # None =>
         /\ summary._records_read >= Len(xProduced)
         /\ summary._records_written >= Len(xWritten)
         /\ xFile = 1 =>
              /\ summary._records_read = Len(xProduced)
              /\ summary._records_written = Len(xWritten)

C28_Witness ==
  /\ xErr = "UnhandledElementError"
  /\ summary # None
  /\ Len(OfElement(xWritten)) >= 1
  /\ summary._records_written = Len(xWritten)
  /\ xElem.unaccessed # {}

\* the wrappers of the children (every wrapper but the first)
ChildWrappers == 2..Len(trHeap)

\* C23: each child of a TrackingElement is wrapped at most once, whatever
\* the sequence of find, findall and iteration: no two wrappers are wrappers
\* of the same child.
C23_ChildWrappedOnce ==
  trPc = "live" =>
    \A i, j \in ChildWrappers : trHeap[i].elem = trHeap[j].elem => i = j

\* C30: findall(tag) returns one wrapper for each child the raw element's
\* findall(tag) returns, in the same order, and find(tag) the wrapper of the
\* raw element's first child of that tag (None when there is none), after
\* any earlier calls.
C30_ReadsLikeRawElement ==
  trPc = "live" =>
    LET raw == RawFindall(trElem, 0, trLast.arg)
        got == [i \in 1..Len(trLast.value) |-> trHeap[trLast.value[i]].elem]
    IN /\ trLast.op = "findall" => got = raw
       /\ trLast.op = "find" => got = (IF raw = <<>> THEN <<>> ELSE <<raw[1]>>)

\* has the element a text that is not blank, and no children?
LeafText(elem) ==
  /\ elem.text # None
  /\ \E i \in 1..Len(elem.text.v) : elem.text.v[i] # 32
  /\ Len(elem.kids) = 0

\* what a wrapper reports of the element it wraps
OwnUnaccessed(w) ==
  LET elem == Raw(trElem, trHeap[w].elem)
  IN ({elem.kids[i].tag : i \in 1..Len(elem.kids)} \ trHeap[w]._accessed_tags)
     \cup {<<"@">> \o attr : attr \in (elem.attrib \ trHeap[w]._accessed_attrs)}
     \cup (IF LeafText(elem) /\ ~trHeap[w]._accessed_text
           THEN {<<"#", "t", "e", "x", "t">>} ELSE {})

\* what the claim lists: the element's own paths and, for each wrapper of a
\* child, tag/path for the paths of that wrapper
ListedUnaccessed ==
  OwnUnaccessed(1)
  \cup UNION {{trElem.kids[trHeap[w].elem].tag \o <<"/">> \o path : path \in OwnUnaccessed(w)} :
               w \in ChildWrappers}

WrappersOf(e) == {w \in ChildWrappers : trHeap[w].elem = e}

\* every tag, attribute and leaf text that the element and its children
\* hold has been read, through some wrapper
AllRead ==
  /\ OwnUnaccessed(1) = {}
  /\ \A e \in 1..Len(trElem.kids) :
       /\ trElem.kids[e].attrib \subseteq UNION {trHeap[w]._accessed_attrs : w \in WrappersOf(e)}
       /\ LeafText(Raw(trElem, e)) => \E w \in WrappersOf(e) : trHeap[w]._accessed_text

\* C24: get_unaccessed returns exactly the child tags never looked up, the
\* attributes never read as @name, #text for an unread leaf text, and
\* tag/path for the paths of each wrapped child; it is empty once every tag,
\* attribute and leaf text present has been read.
C24_UnaccessedExact ==
  trPc = "live" =>
    /\ get_unaccessed(trElem, trHeap, 1) = ListedUnaccessed
    /\ AllRead => get_unaccessed(trElem, trHeap, 1) = {}

\* C25: a format with a name and a qty attribute is parsed into a Format
\* whose quantity is the qty attribute's string, whatever the string is
\* (leading zeros, no number at all), and the parse does not raise.
C25_QuantityKeptAsString ==
  (fmPc = "done" /\ fmParent # None) =>
    LET format_elem == fmParent.formats[1]
    IN /\ fmResult # ValueError
       /\ (Truthy(format_elem.name) /\ Truthy(format_elem.qty)) =>
            fmResult = ListV(<<Format(format_elem.name, format_elem.qty,
                                      format_elem.text, <<>>)>>)

\* the root-level entity elements of the input, in source order
RootLevel(doc, tag) ==
  SelectSeq([i \in 1..Len(doc.entries) |-> <<i, 0>>], LAMBDA el : doc.entries[el[1]].tag = tag)

\* C26: sample writes min(count, M) elements, M the number of root-level
\* entity elements of the input; the output is the declaration, the root's
\* opening tag, those elements, each as it is in the input and in source
\* order, and the closing tag; the number returned is the number written.
C26_SampleWritesFirstElements ==
  smPc = "done" =>
    LET roots == RootLevel(smDoc, get_entity_tag(smEntity))
        n == Min(smCount, Len(roots))
    IN /\ smReturn = IntV(n)
       /\ Len(smOut) = n + 3
       /\ smOut[1] = [kind |-> "declaration"]
       /\ smOut[2] = [kind |-> "open", tag |-> smEntity]
       /\ smOut[Len(smOut)] = [kind |-> "close", tag |-> smEntity]
       /\ \A k \in 1..n :
            smOut[k + 2] = [kind |-> "element", elem |-> roots[k], cleared |-> {},
                            deleted |-> {}]

====
